---- MODULE Spec2Model ----
(***************************************************************************)
(* A model of the rice-monitor backend: the submission record store, the   *)
(* spreadsheet row codec, the spreadsheet sync engine and the submission   *)
(* and media handlers.                                                     *)
(*                                                                         *)
(* Times are natural numbers (0 is Go's zero time.Time).  Floats are       *)
(* integers counting millionths, so that "%f" (six decimals) is exact on   *)
(* them.  A Go map is a function from its keys to BOOLEAN; the order in    *)
(* which `range` visits it is a choice made at every call.                 *)
(***************************************************************************)
EXTENDS Integers, Sequences, FiniteSets, TLC

VARIABLES
    store,      \* submissions collection: document id -> Submission
    sheetRows,  \* spreadsheet id -> the rows of the sheet, first row first
    tasks,      \* goroutines in flight, in the order they were started
    objects,    \* names of the objects in the storage bucket
    clock,      \* time.Now()
    nextId,     \* how many ids utils.GenerateID has handed out
    out,        \* what the last operation returned or responded
    probe,      \* input and output of the last row codec call
    syncLog,    \* the sync engine calls made so far, oldest first
    formData,   \* MonitoringForm: the form state of the client
    submit,     \* MonitoringForm: the run of handleSubmit in progress
    users,      \* users collection: the user documents
    logins,     \* GoogleLogin calls in flight, in the order they started
    issued      \* the access and refresh tokens handed out so far

\* the state of the client and the state of the auth handlers
client == <<formData, submit>>

auth == <<users, logins, issued>>

vars == <<store, sheetRows, tasks, objects, clock, nextId, out, probe, syncLog,
          formData, submit, users, logins, issued>>

-----------------------------------------------------------------------------
(* Bounds *)

MaxIds == 2        \* ids utils.GenerateID hands out in one behaviour
MaxClock == 3      \* requests handled in one behaviour, one per clock tick
MaxCalls == 3      \* sync engine calls in the engine-level specification
MaxSyncIds == 1    \* submissions the engine-level specification syncs
MaxAttach == 3     \* concurrent uploads in the attach-level specification
MaxAttempts == 2   \* runs of a transaction before RunTransaction gives up

-----------------------------------------------------------------------------
(* Strings *)

RECURSIVE Join(_, _)
\* strings.Join(elems, sep)
Join(elems, sep) ==
    IF Len(elems) = 0 THEN ""
    ELSE IF Len(elems) = 1 THEN elems[1]
    ELSE elems[1] \o sep \o Join(Tail(elems), sep)

RECURSIVE Pad(_, _)
\* s left-padded with zeroes to width n
Pad(s, n) == IF Len(s) >= n THEN s ELSE Pad("0" \o s, n)

\* time.Time.Format(time.RFC3339) of the t-th second after the zero time
FormatRFC3339(t) == "0001-01-01T00:00:" \o Pad(ToString(t), 2) \o "Z"

\* fmt.Sprintf("%f", x) for x counted in millionths
SprintfF(x) ==
    LET a == IF x < 0 THEN -x ELSE x
    IN  (IF x < 0 THEN "-" ELSE "") \o ToString(a \div 1000000) \o "." \o
        Pad(ToString(a % 1000000), 6)

\* fmt.Sprintf("%d", n) and strconv.Itoa(n)
SprintfD(n) == ToString(n)

\* fmt.Sprintf("%t", b) and strconv.FormatBool(b)
SprintfT(b) == IF b THEN "true" ELSE "false"

RECURSIVE SelectTrue(_, _)
\* the keys of m, in the order the iteration visits them, whose value is true
SelectTrue(m, order) ==
    IF Len(order) = 0 THEN << >>
    ELSE IF m[order[1]] THEN <<order[1]>> \o SelectTrue(m, Tail(order))
    ELSE SelectTrue(m, Tail(order))

\* mapToString(m), `order` being the order in which range visits m's keys
mapToString(m, order) == Join(SelectTrue(m, order), ", ")

\* every order in which the keys S can be visited
Perms(S) ==
    {p \in [1..Cardinality(S) -> S] : \A i, j \in 1..Cardinality(S) : p[i] = p[j] => i = j}

-----------------------------------------------------------------------------
(* Submissions *)

NilMap == << >>

ZeroPlantConditions ==
    [Healthy |-> FALSE, Unhealthy |-> FALSE,
     SignsOfPestInfestation |-> FALSE, PestDetails |-> NilMap, OtherPest |-> "",
     SignsOfNutrientDeficiency |-> FALSE, NutrientDeficiencyDetails |-> NilMap,
     OtherNutrient |-> "",
     WaterStress |-> FALSE, WaterStressLevel |-> "",
     Lodging |-> FALSE, LodgingLevel |-> "",
     WeedInfestation |-> FALSE, WeedInfestationLevel |-> "",
     DiseaseSymptoms |-> FALSE, DiseaseDetails |-> NilMap, OtherDisease |-> "",
     Other |-> FALSE, OtherConditionText |-> ""]

ZeroTraitMeasurements ==
    [CulmLength |-> 0, PanicleLength |-> 0, PaniclesPerHill |-> 0, HillsObserved |-> 0]

ZeroLocation == [Latitude |-> 0, Longitude |-> 0]

\* the orders in which the three detail maps of a submission can be visited
Iterations(submission) ==
    [pest : Perms(DOMAIN submission.PlantConditions.PestDetails),
     nutrient : Perms(DOMAIN submission.PlantConditions.NutrientDeficiencyDetails),
     disease : Perms(DOMAIN submission.PlantConditions.DiseaseDetails)]

-----------------------------------------------------------------------------
(* Spreadsheet row codec *)

\* the header row ensureHeaders writes
Headers ==
    <<"ID", "UserID", "FieldID", "FieldName", "Date", "GrowthStage",
      "Notes", "ObserverName", "Status", "CreatedAt", "UpdatedAt",
      "Latitude", "Longitude",
      "CulmLength", "PanicleLength", "PaniclesPerHill", "HillsObserved",
      "Healthy", "Unhealthy", "SignsOfPestInfestation", "PestDetails", "OtherPest",
      "SignsOfNutrientDeficiency", "NutrientDeficiencyDetails", "OtherNutrient",
      "WaterStress", "WaterStressLevel", "Lodging", "LodgingLevel",
      "WeedInfestation", "WeedInfestationLevel", "DiseaseSymptoms", "DiseaseDetails",
      "OtherDisease",
      "Other", "OtherConditionText",
      "Images", "Videos", "Audio">>

\* submissionToRow with the OtherConditionText cell left out
submissionToRowShort(submission, fieldName, it) ==
    <<submission.ID,
      submission.UserID,
      submission.FieldID,
      fieldName,
      FormatRFC3339(submission.Date),
      submission.GrowthStage,
      submission.Notes,
      submission.ObserverName,
      submission.Status,
      FormatRFC3339(submission.CreatedAt),
      FormatRFC3339(submission.UpdatedAt),
      SprintfF(submission.Coordinates.Latitude),
      SprintfF(submission.Coordinates.Longitude),
      SprintfF(submission.TraitMeasurements.CulmLength),
      SprintfF(submission.TraitMeasurements.PanicleLength),
      SprintfD(submission.TraitMeasurements.PaniclesPerHill),
      SprintfD(submission.TraitMeasurements.HillsObserved),
      SprintfT(submission.PlantConditions.Healthy),
      SprintfT(submission.PlantConditions.Unhealthy),
      SprintfT(submission.PlantConditions.SignsOfPestInfestation),
      mapToString(submission.PlantConditions.PestDetails, it.pest),
      submission.PlantConditions.OtherPest,
      SprintfT(submission.PlantConditions.SignsOfNutrientDeficiency),
      mapToString(submission.PlantConditions.NutrientDeficiencyDetails, it.nutrient),
      submission.PlantConditions.OtherNutrient,
      SprintfT(submission.PlantConditions.WaterStress),
      submission.PlantConditions.WaterStressLevel,
      SprintfT(submission.PlantConditions.Lodging),
      submission.PlantConditions.LodgingLevel,
      SprintfT(submission.PlantConditions.WeedInfestation),
      submission.PlantConditions.WeedInfestationLevel,
      SprintfT(submission.PlantConditions.DiseaseSymptoms),
      mapToString(submission.PlantConditions.DiseaseDetails, it.disease),
      submission.PlantConditions.OtherDisease,
      SprintfT(submission.PlantConditions.Other),
      Join(submission.Images, ","),
      Join(submission.Videos, ","),
      Join(submission.Audio, ",")>>

\* submissionToRow with the Latitude and Longitude cells exchanged
submissionToRowSwapped(submission, fieldName, it) ==
    <<submission.ID,
      submission.UserID,
      submission.FieldID,
      fieldName,
      FormatRFC3339(submission.Date),
      submission.GrowthStage,
      submission.Notes,
      submission.ObserverName,
      submission.Status,
      FormatRFC3339(submission.CreatedAt),
      FormatRFC3339(submission.UpdatedAt),
      SprintfF(submission.Coordinates.Longitude),
      SprintfF(submission.Coordinates.Latitude),
      SprintfF(submission.TraitMeasurements.CulmLength),
      SprintfF(submission.TraitMeasurements.PanicleLength),
      SprintfD(submission.TraitMeasurements.PaniclesPerHill),
      SprintfD(submission.TraitMeasurements.HillsObserved),
      SprintfT(submission.PlantConditions.Healthy),
      SprintfT(submission.PlantConditions.Unhealthy),
      SprintfT(submission.PlantConditions.SignsOfPestInfestation),
      mapToString(submission.PlantConditions.PestDetails, it.pest),
      submission.PlantConditions.OtherPest,
      SprintfT(submission.PlantConditions.SignsOfNutrientDeficiency),
      mapToString(submission.PlantConditions.NutrientDeficiencyDetails, it.nutrient),
      submission.PlantConditions.OtherNutrient,
      SprintfT(submission.PlantConditions.WaterStress),
      submission.PlantConditions.WaterStressLevel,
      SprintfT(submission.PlantConditions.Lodging),
      submission.PlantConditions.LodgingLevel,
      SprintfT(submission.PlantConditions.WeedInfestation),
      submission.PlantConditions.WeedInfestationLevel,
      SprintfT(submission.PlantConditions.DiseaseSymptoms),
      mapToString(submission.PlantConditions.DiseaseDetails, it.disease),
      submission.PlantConditions.OtherDisease,
      SprintfT(submission.PlantConditions.Other),
      submission.PlantConditions.OtherConditionText,
      Join(submission.Images, ","),
      Join(submission.Videos, ","),
      Join(submission.Audio, ",")>>

\* GoogleSheetsService.submissionToRow; `it` is the order in which the three
\* mapToString calls visit their maps
submissionToRow(submission, fieldName, it) ==
    <<submission.ID,
      submission.UserID,
      submission.FieldID,
      fieldName,
      FormatRFC3339(submission.Date),
      submission.GrowthStage,
      submission.Notes,
      submission.ObserverName,
      submission.Status,
      FormatRFC3339(submission.CreatedAt),
      FormatRFC3339(submission.UpdatedAt),
      SprintfF(submission.Coordinates.Latitude),
      SprintfF(submission.Coordinates.Longitude),
      SprintfF(submission.TraitMeasurements.CulmLength),
      SprintfF(submission.TraitMeasurements.PanicleLength),
      SprintfD(submission.TraitMeasurements.PaniclesPerHill),
      SprintfD(submission.TraitMeasurements.HillsObserved),
      SprintfT(submission.PlantConditions.Healthy),
      SprintfT(submission.PlantConditions.Unhealthy),
      SprintfT(submission.PlantConditions.SignsOfPestInfestation),
      mapToString(submission.PlantConditions.PestDetails, it.pest),
      submission.PlantConditions.OtherPest,
      SprintfT(submission.PlantConditions.SignsOfNutrientDeficiency),
      mapToString(submission.PlantConditions.NutrientDeficiencyDetails, it.nutrient),
      submission.PlantConditions.OtherNutrient,
      SprintfT(submission.PlantConditions.WaterStress),
      submission.PlantConditions.WaterStressLevel,
      SprintfT(submission.PlantConditions.Lodging),
      submission.PlantConditions.LodgingLevel,
      SprintfT(submission.PlantConditions.WeedInfestation),
      submission.PlantConditions.WeedInfestationLevel,
      SprintfT(submission.PlantConditions.DiseaseSymptoms),
      mapToString(submission.PlantConditions.DiseaseDetails, it.disease),
      submission.PlantConditions.OtherDisease,
      SprintfT(submission.PlantConditions.Other),
      submission.PlantConditions.OtherConditionText,
      Join(submission.Images, ","),
      Join(submission.Videos, ","),
      Join(submission.Audio, ",")>>

-----------------------------------------------------------------------------
(* Sample values *)

FullPlantConditions ==
    [Healthy |-> TRUE, Unhealthy |-> TRUE,
     SignsOfPestInfestation |-> TRUE,
     PestDetails |-> [k \in {"Stem borer", "Others"} |-> TRUE],
     OtherPest |-> "aphids",
     SignsOfNutrientDeficiency |-> TRUE,
     NutrientDeficiencyDetails |-> [k \in {"Nitrogen", "Zinc"} |-> TRUE],
     OtherNutrient |-> "boron",
     WaterStress |-> TRUE, WaterStressLevel |-> "Low",
     Lodging |-> TRUE, LodgingLevel |-> "Medium",
     WeedInfestation |-> TRUE, WeedInfestationLevel |-> "High",
     DiseaseSymptoms |-> TRUE,
     DiseaseDetails |-> [k \in {"Blast", "Sheath blight"} |-> TRUE],
     OtherDisease |-> "smut",
     Other |-> TRUE, OtherConditionText |-> "hail"]

\* one pest selected and one deselected, nothing else
OnePestPlantConditions ==
    [ZeroPlantConditions EXCEPT
        !.Unhealthy = TRUE,
        !.SignsOfPestInfestation = TRUE,
        !.PestDetails = [k \in {"Stem borer", "Others"} |-> k = "Others"]]

HealthyPlantConditions == [ZeroPlantConditions EXCEPT !.Healthy = TRUE]

FullTraitMeasurements ==
    [CulmLength |-> 85500000, PanicleLength |-> 24250000,
     PaniclesPerHill |-> 12, HillsObserved |-> 30]

\* latitude 14.5995, longitude -120.9842
SampleLocation == [Latitude |-> 14599500, Longitude |-> -120984200]

\* the fields collection: field id -> Field.Name
fields == [f \in {"field_1"} |-> "North paddy"]

\* field_id values a client can send: none, the sentinel, a field, a deleted field
FieldIDs == {"", "others", "field_1", "field_gone"}

\* the ids utils.GenerateID hands out, in order
GenerateID(n) == "sub_" \o ToString(n)

-----------------------------------------------------------------------------
(* Sheets API *)

\* the registered spreadsheets, in the order fetchSheets lists them
SheetOrder == <<"sheet_a", "sheet_b">>

SheetIds == {SheetOrder[i] : i \in 1..Len(SheetOrder)}

\* Spreadsheets.Values.Get of column A: one value list per row
ColumnA(rows) ==
    [i \in 1..Len(rows) |->
        IF Len(rows[i]) > 0 /\ rows[i][1] # "" THEN <<rows[i][1]>> ELSE << >>]

\* Spreadsheets.Values.Append to A:A: the row goes after the last row
ValuesAppend(rows, row) == Append(rows, row)

\* Spreadsheets.Values.Update at A<n>: the cells of row overwrite line n
ValuesUpdate(rows, n, row) ==
    IF n <= Len(rows)
    THEN [rows EXCEPT ![n] =
            [i \in 1..(IF Len(@) > Len(row) THEN Len(@) ELSE Len(row)) |->
                IF i <= Len(row) THEN row[i] ELSE @[i]]]
    ELSE Append(rows, row)

\* the number of rows of a sheet whose column A equals id
CountRows(rows, id) ==
    Cardinality({i \in 1..Len(rows) : Len(rows[i]) > 0 /\ rows[i][1] = id})

-----------------------------------------------------------------------------
(* Spreadsheet sync engine, one spreadsheet at a time *)

\* ensureHeaders on one sheet; readOk and writeOk say whether the Get and the
\* Update call succeed.  wrote: whether an Update call was issued.
ensureHeadersAlways(rows, readOk, writeOk) ==
    IF ~readOk THEN [rows |-> rows, err |-> TRUE, wrote |-> FALSE]
    ELSE IF writeOk
         THEN [rows |-> ValuesUpdate(rows, 1, Headers), err |-> FALSE, wrote |-> TRUE]
         ELSE [rows |-> rows, err |-> TRUE, wrote |-> TRUE]

ensureHeaders(rows, readOk, writeOk) ==
    IF ~readOk THEN [rows |-> rows, err |-> TRUE, wrote |-> FALSE]
    ELSE IF Len(rows) = 0 \/ Len(rows[1]) = 0 \/ rows[1][1] = ""
         THEN IF writeOk
              THEN [rows |-> ValuesUpdate(rows, 1, Headers), err |-> FALSE, wrote |-> TRUE]
              ELSE [rows |-> rows, err |-> TRUE, wrote |-> TRUE]
         ELSE [rows |-> rows, err |-> FALSE, wrote |-> FALSE]

\* the scan of UpdateSubmission that never finds the id
FindRowNever(values, id) == -1

\* the scan of UpdateSubmission without its break: the last row of the id
FindRowLast(values, id) ==
    LET hits == {i \in 1..Len(values) : Len(values[i]) > 0 /\ values[i][1] = id}
    IN  IF hits = {} THEN -1
        ELSE (CHOOSE i \in hits : \A j \in hits : i >= j) - 1

\* the scan of UpdateSubmission over the values read from column A: the
\* 0-based index of the first row whose cell equals id, or -1
FindRow(values, id) ==
    LET hits == {i \in 1..Len(values) : Len(values[i]) > 0 /\ values[i][1] = id}
    IN  IF hits = {} THEN -1
        ELSE (CHOOSE i \in hits : \A j \in hits : i <= j) - 1

\* appendRow: the error is logged, never returned
appendRow(rows, row, writeOk) == IF writeOk THEN ValuesAppend(rows, row) ELSE rows

\* UpdateWrite without the fallback to appendRow
UpdateWriteNoFallback(rows, rowIndex, row, writeOk) ==
    IF rowIndex = -1 THEN rows
    ELSE IF writeOk THEN ValuesUpdate(rows, rowIndex + 1, row) ELSE rows

\* UpdateWrite that leaves a row it has found as it is
UpdateWriteKeep(rows, rowIndex, row, writeOk) ==
    IF rowIndex = -1 THEN appendRow(rows, row, writeOk) ELSE rows

\* the second half of one round of UpdateSubmission's loop: with the index
\* the scan found, append the row or overwrite line rowIndex+1
UpdateWrite(rows, rowIndex, row, writeOk) ==
    IF rowIndex = -1 THEN appendRow(rows, row, writeOk)
    ELSE IF writeOk THEN ValuesUpdate(rows, rowIndex + 1, row) ELSE rows

\* one round of UpdateSubmission's loop with nothing running in between
UpdateOneSheet(rows, id, row, readOk, writeOk) ==
    IF ~readOk THEN rows
    ELSE UpdateWrite(rows, FindRow(ColumnA(rows), id), row, writeOk)

\* one round of AppendSubmission's loop
AppendOneSheet(rows, row, writeOk) == IF writeOk THEN ValuesAppend(rows, row) ELSE rows

-----------------------------------------------------------------------------
(* Spreadsheet sync engine, whole calls.  listOk says whether fetchSheets   *)
(* succeeds; fate[s] says how the backend calls on sheet s end.             *)

\* how the calls of one round on one sheet end: both succeed, the read fails
\* (there is no write then), or the read succeeds and the write fails
Fates == {"ok", "read_failed", "write_failed"}

ReadOk(fate) == fate # "read_failed"

WriteOk(fate) == fate = "ok"

\* ensureAllHeaders that returns the first error of ensureHeaders
ensureAllHeadersStopAtFailure(sheets, listOk, fate) ==
    IF ~listOk THEN [rows |-> sheets, err |-> TRUE, wrote |-> {}, failed |-> SheetIds]
    ELSE LET r == [s \in SheetIds |->
                      ensureHeaders(sheets[s], ReadOk(fate[s]), WriteOk(fate[s]))]
             bad == {i \in 1..Len(SheetOrder) : r[SheetOrder[i]].err}
             stop == IF bad = {} THEN Len(SheetOrder)
                     ELSE CHOOSE i \in bad : \A j \in bad : i <= j
             tried == {SheetOrder[i] : i \in 1..stop}
         IN  [rows |-> [s \in SheetIds |-> IF s \in tried THEN r[s].rows ELSE sheets[s]],
              err |-> bad # {},
              wrote |-> {s \in tried : r[s].wrote},
              failed |-> {s \in tried : r[s].err}]

ensureAllHeaders(sheets, listOk, fate) ==
    IF ~listOk THEN [rows |-> sheets, err |-> TRUE, wrote |-> {}, failed |-> SheetIds]
    ELSE LET r == [s \in SheetIds |->
                      ensureHeaders(sheets[s], ReadOk(fate[s]), WriteOk(fate[s]))]
         IN  [rows |-> [s \in SheetIds |-> r[s].rows],
              err |-> FALSE,
              wrote |-> {s \in SheetIds : r[s].wrote},
              failed |-> {s \in SheetIds : r[s].err}]

\* AppendSubmission that returns at the first spreadsheet whose append fails
AppendSubmissionStopAtFailure(sheets, row, listOk, fate) ==
    IF ~listOk THEN [rows |-> sheets, err |-> TRUE, wrote |-> {}, failed |-> SheetIds]
    ELSE LET bad == {i \in 1..Len(SheetOrder) : ~WriteOk(fate[SheetOrder[i]])}
             stop == IF bad = {} THEN Len(SheetOrder)
                     ELSE CHOOSE i \in bad : \A j \in bad : i <= j
             tried == {SheetOrder[i] : i \in 1..stop}
         IN  [rows |-> [s \in SheetIds |->
                          IF s \in tried
                          THEN AppendOneSheet(sheets[s], row, WriteOk(fate[s]))
                          ELSE sheets[s]],
              err |-> bad # {},
              wrote |-> tried,
              failed |-> {s \in tried : ~WriteOk(fate[s])}]

AppendSubmission(sheets, row, listOk, fate) ==
    IF ~listOk THEN [rows |-> sheets, err |-> TRUE, wrote |-> {}, failed |-> SheetIds]
    ELSE [rows |-> [s \in SheetIds |-> AppendOneSheet(sheets[s], row, WriteOk(fate[s]))],
          err |-> FALSE,
          wrote |-> SheetIds,
          failed |-> {s \in SheetIds : ~WriteOk(fate[s])}]

UpdateSubmission(sheets, id, row, listOk, fate) ==
    IF ~listOk THEN [rows |-> sheets, err |-> TRUE, wrote |-> {}, failed |-> SheetIds]
    ELSE [rows |-> [s \in SheetIds |->
                      UpdateOneSheet(sheets[s], id, row,
                                     ReadOk(fate[s]), WriteOk(fate[s]))],
          err |-> FALSE,
          wrote |-> {s \in SheetIds : ReadOk(fate[s])},
          failed |-> {s \in SheetIds : fate[s] # "ok"}]

-----------------------------------------------------------------------------
(* Requests *)

\* a date string that is not RFC 3339, such as "2024-03-01"
MalformedDate == -1

\* a create payload; a key the JSON leaves out has its zero value
MinimalRequest ==
    [FieldID |-> "", OtherFieldName |-> "", Date |-> 1, GrowthStage |-> "Tillering",
     PlantConditions |-> ZeroPlantConditions,
     TraitMeasurements |-> ZeroTraitMeasurements,
     Coordinates |-> ZeroLocation, Notes |-> "", ObserverName |-> "Alice",
     Images |-> << >>, Videos |-> << >>, Audio |-> << >>]

FieldRequest ==
    [MinimalRequest EXCEPT
        !.FieldID = "field_1",
        !.PlantConditions = OnePestPlantConditions,
        !.TraitMeasurements = FullTraitMeasurements,
        !.Coordinates = SampleLocation,
        !.Notes = "first visit",
        !.Images = <<"https://storage.googleapis.com/bucket/a.jpg">>]

OthersRequest ==
    [MinimalRequest EXCEPT !.FieldID = "others", !.OtherFieldName = "Plot 9",
                           !.GrowthStage = "Heading", !.ObserverName = "Bob"]

GoneFieldRequest == [MinimalRequest EXCEPT !.FieldID = "field_gone"]

\* c.ShouldBindJSON(&req) for CreateSubmissionRequest: the JSON decoding,
\* then the binding:"required" tags
BindCreateNoObserver(req) ==
    IF req.Date = MalformedDate THEN "parse_error"
    ELSE IF req.Date = 0 \/ req.GrowthStage = "" THEN "validation_error"
    ELSE "ok"

BindCreate(req) ==
    IF req.Date = MalformedDate THEN "parse_error"
    ELSE IF req.Date = 0 \/ req.GrowthStage = "" \/ req.ObserverName = ""
         THEN "validation_error"
    ELSE "ok"

\* the Submission CreateSubmission builds from a bound request
NewSubmission(req, userID, id, now) ==
    [ID |-> id,
     UserID |-> userID,
     FieldID |-> req.FieldID,
     OtherFieldName |-> req.OtherFieldName,
     Date |-> req.Date,
     GrowthStage |-> req.GrowthStage,
     PlantConditions |-> req.PlantConditions,
     TraitMeasurements |-> req.TraitMeasurements,
     Coordinates |-> req.Coordinates,
     Notes |-> req.Notes,
     ObserverName |-> req.ObserverName,
     Images |-> req.Images,
     Videos |-> req.Videos,
     Audio |-> req.Audio,
     Status |-> "submitted",
     CreatedAt |-> now,
     UpdatedAt |-> now]

\* "Get field name for Google Sheet" in CreateSubmission and UpdateSubmission;
\* fieldGetOk says whether the read of the field document succeeds
SheetFieldName(submission, fieldGetOk) ==
    IF submission.FieldID # "" /\ submission.FieldID # "others"
    THEN IF fieldGetOk /\ submission.FieldID \in DOMAIN fields
         THEN fields[submission.FieldID] ELSE ""
    ELSE submission.OtherFieldName

-----------------------------------------------------------------------------
(* The client form and the users collection before any call *)

\* a JavaScript object without keys
EmptyObject == << >>

\* useState of MonitoringForm: plantConditions
InitialPlantConditions ==
    [k \in {"Healthy", "Unhealthy", "Signs of pest infestation",
            "Signs of nutrient deficiency", "Water stress (drought or flood)",
            "Lodging (bent/broken stems)", "Weed infestation", "Disease symptoms",
            "Other"} |-> FALSE]
    @@ [k \in {"pestDetails", "nutrientDeficiencyDetails", "diseaseDetails"} |-> EmptyObject]
    @@ [k \in {"otherPest", "otherNutrient", "waterStressLevel", "lodgingLevel",
               "weedInfestationLevel", "otherDisease", "otherConditionText"} |-> ""]

\* useState of MonitoringForm: formData.  The date is today's and is left
\* alone; measurements and notes are left empty.
InitialFormData ==
    [location |-> "", growthStage |-> "", plantConditions |-> InitialPlantConditions,
     images |-> << >>]

\* no run of handleSubmit in progress, none ended
NoSubmit ==
    [pc |-> "idle", data |-> << >>, files |-> << >>, submissionId |-> "",
     imageUrls |-> << >>, requests |-> << >>, created |-> {}, toast |-> ""]

InitClient == formData = InitialFormData /\ submit = NoSubmit

\* the users collection of a deployment: one user made an administrator
InitialUsers ==
    {[ID |-> "admin_1", Email |-> "admin@rice.org", Role |-> "admin", LastLoginAt |-> 0]}

InitAuth ==
    /\ users = InitialUsers
    /\ logins = << >>
    /\ issued = [access |-> {}, refresh |-> {}]

-----------------------------------------------------------------------------
(* The row codec on its own *)

NoProbe == [row |-> << >>]

NoOut == [op |-> "none"]

\* the ids of the submission documents there can be
DocIds == {GenerateID(n) : n \in 1..MaxIds}

\* an empty optional value; <<v>> is the value v
None == << >>

NoStore == [id \in DocIds |-> None]

CodecInputs ==
    {[NewSubmission(MinimalRequest, "user_1", "sub_1", 1) EXCEPT
        !.FieldID = f, !.PlantConditions = pc, !.TraitMeasurements = tm,
        !.Coordinates = c, !.Notes = n, !.Images = m[1], !.Videos = m[2], !.Audio = m[3],
        !.UpdatedAt = 2] :
        f \in {"", "field_1"},
        pc \in {ZeroPlantConditions, HealthyPlantConditions, OnePestPlantConditions,
                FullPlantConditions},
        tm \in {ZeroTraitMeasurements, FullTraitMeasurements},
        c \in {ZeroLocation, SampleLocation},
        n \in {"", "first visit"},
        m \in {<< << >>, << >>, << >> >>,
                <<<<"https://h/b/1.jpg">>, << >>, << >>>>,
                <<<<"https://h/b/1.jpg", "https://h/b/2.jpg">>, <<"https://h/b/3.mp4">>,
                  <<"https://h/b/4.ogg">>>>}}

InitCodec ==
    /\ InitClient
    /\ InitAuth
    /\ store = NoStore
    /\ sheetRows = [s \in SheetIds |-> << >>]
    /\ tasks = << >>
    /\ objects = {}
    /\ clock = 0
    /\ nextId = 0
    /\ out = NoOut
    /\ syncLog = << >>
    /\ \E submission \in CodecInputs, fieldName \in {"", "North paddy"} :
          probe = [submission |-> submission, fieldName |-> fieldName,
                   it |-> [pest |-> << >>, nutrient |-> << >>, disease |-> << >>],
                   row |-> << >>]

\* a call of submissionToRow
CodecEncode ==
    /\ probe.row = << >>
    /\ \E it \in Iterations(probe.submission) :
          probe' = [probe EXCEPT !.it = it,
                       !.row = submissionToRow(probe.submission, probe.fieldName, it)]
    /\ UNCHANGED <<store, sheetRows, tasks, objects, clock, nextId, out, syncLog, client, auth>>

\* a call of ensureHeaders on a sheet, with no backend failure
CodecEnsureHeaders ==
    /\ \E s \in SheetIds :
          LET r == ensureHeaders(sheetRows[s], TRUE, TRUE)
          IN  /\ r.wrote
              /\ sheetRows' = [sheetRows EXCEPT ![s] = r.rows]
    /\ UNCHANGED <<store, tasks, objects, clock, nextId, out, probe, client, auth, syncLog>>

NextCodec == CodecEncode \/ CodecEnsureHeaders

SpecCodec == InitCodec /\ [][NextCodec]_vars

\* the value of the submission field a header names, as the sheet shows it
CellOf(header, submission, fieldName, it) ==
    LET pc == submission.PlantConditions
        tm == submission.TraitMeasurements
    IN  CASE header = "ID" -> submission.ID
          [] header = "UserID" -> submission.UserID
          [] header = "FieldID" -> submission.FieldID
          [] header = "FieldName" -> fieldName
          [] header = "Date" -> FormatRFC3339(submission.Date)
          [] header = "GrowthStage" -> submission.GrowthStage
          [] header = "Notes" -> submission.Notes
          [] header = "ObserverName" -> submission.ObserverName
          [] header = "Status" -> submission.Status
          [] header = "CreatedAt" -> FormatRFC3339(submission.CreatedAt)
          [] header = "UpdatedAt" -> FormatRFC3339(submission.UpdatedAt)
          [] header = "Latitude" -> SprintfF(submission.Coordinates.Latitude)
          [] header = "Longitude" -> SprintfF(submission.Coordinates.Longitude)
          [] header = "CulmLength" -> SprintfF(tm.CulmLength)
          [] header = "PanicleLength" -> SprintfF(tm.PanicleLength)
          [] header = "PaniclesPerHill" -> SprintfD(tm.PaniclesPerHill)
          [] header = "HillsObserved" -> SprintfD(tm.HillsObserved)
          [] header = "Healthy" -> SprintfT(pc.Healthy)
          [] header = "Unhealthy" -> SprintfT(pc.Unhealthy)
          [] header = "SignsOfPestInfestation" -> SprintfT(pc.SignsOfPestInfestation)
          [] header = "PestDetails" -> mapToString(pc.PestDetails, it.pest)
          [] header = "OtherPest" -> pc.OtherPest
          [] header = "SignsOfNutrientDeficiency" -> SprintfT(pc.SignsOfNutrientDeficiency)
          [] header = "NutrientDeficiencyDetails" ->
                mapToString(pc.NutrientDeficiencyDetails, it.nutrient)
          [] header = "OtherNutrient" -> pc.OtherNutrient
          [] header = "WaterStress" -> SprintfT(pc.WaterStress)
          [] header = "WaterStressLevel" -> pc.WaterStressLevel
          [] header = "Lodging" -> SprintfT(pc.Lodging)
          [] header = "LodgingLevel" -> pc.LodgingLevel
          [] header = "WeedInfestation" -> SprintfT(pc.WeedInfestation)
          [] header = "WeedInfestationLevel" -> pc.WeedInfestationLevel
          [] header = "DiseaseSymptoms" -> SprintfT(pc.DiseaseSymptoms)
          [] header = "DiseaseDetails" -> mapToString(pc.DiseaseDetails, it.disease)
          [] header = "OtherDisease" -> pc.OtherDisease
          [] header = "Other" -> SprintfT(pc.Other)
          [] header = "OtherConditionText" -> pc.OtherConditionText
          [] header = "Images" -> Join(submission.Images, ",")
          [] header = "Videos" -> Join(submission.Videos, ",")
          [] header = "Audio" -> Join(submission.Audio, ",")

\* C1 (as amended): every row submissionToRow returns has exactly 39 cells,
\* whichever optional fields of the submission are populated or empty.
C1_RowHas39Cells == probe.row # << >> => Len(probe.row) = 39

\* C1 (as stated): every row submissionToRow returns has exactly 37 cells.
C1_RowHas37Cells == probe.row # << >> => Len(probe.row) = 37

\* C1 witness: a submission with every optional field empty has been encoded.
C1_Witness ==
    /\ probe.row # << >>
    /\ probe.submission.PlantConditions = ZeroPlantConditions
    /\ probe.submission.Notes = "" /\ probe.submission.Images = << >>
    /\ probe.submission.FieldID = ""

\* C2: the row submissionToRow returns is as long as the header row that
\* ensureHeaders wrote, and its i-th cell is the value of the submission field
\* that the i-th header names.
C2_RowMatchesHeader ==
    \A s \in SheetIds :
        (probe.row # << >> /\ Len(sheetRows[s]) > 0) =>
            /\ Len(probe.row) = Len(sheetRows[s][1])
            /\ \A i \in 1..Len(probe.row) :
                  probe.row[i] =
                      CellOf(sheetRows[s][1][i], probe.submission, probe.fieldName, probe.it)

\* C2 witness: a fully populated submission has been encoded and a header row
\* has been written.
C2_Witness ==
    /\ probe.row # << >>
    /\ probe.submission.PlantConditions = FullPlantConditions
    /\ probe.submission.Coordinates = SampleLocation
    /\ Len(probe.submission.Images) = 2
    /\ \E s \in SheetIds : Len(sheetRows[s]) > 0

-----------------------------------------------------------------------------
(* The sync engine on its own: its calls run one after the other, each to   *)
(* its end, and any backend call may fail.                                  *)

\* the submission whose creation the engine is told of, and its later state
CreatedSample(id) ==
    NewSubmission(IF id = GenerateID(1) THEN FieldRequest ELSE OthersRequest,
                  "user_1", id, 1)

UpdatedSample(id) == [CreatedSample(id) EXCEPT !.Notes = "second visit", !.UpdatedAt = 2]

SampleIds == {GenerateID(n) : n \in 1..MaxSyncIds}

InitSync ==
    /\ InitClient
    /\ InitAuth
    /\ store = NoStore
    /\ sheetRows = [s \in SheetIds |-> << >>]
    /\ tasks = << >>
    /\ objects = {}
    /\ clock = 0
    /\ nextId = 0
    /\ out = NoOut
    /\ probe = NoProbe
    /\ syncLog = << >>

\* the rows submissionToRow can return for the sample submissions
CreatedRows ==
    [id \in SampleIds |->
        {submissionToRow(CreatedSample(id), SheetFieldName(CreatedSample(id), TRUE), it) :
            it \in Iterations(CreatedSample(id))}]

UpdatedRows ==
    [id \in SampleIds |->
        {submissionToRow(UpdatedSample(id), SheetFieldName(UpdatedSample(id), TRUE), it) :
            it \in Iterations(UpdatedSample(id))}]

\* NewGoogleSheetsService at a start of the server
EngineStartup ==
    /\ Len(syncLog) < MaxCalls
    /\ \E listOk \in BOOLEAN, fate \in [SheetIds -> Fates] :
          LET r == ensureAllHeaders(sheetRows, listOk, fate)
          IN  /\ listOk \/ \A s \in SheetIds : fate[s] = "ok"
              /\ sheetRows' = r.rows
              /\ out' = [op |-> "ensureAllHeaders", id |-> "", err |-> r.err, listed |-> listOk,
                         wrote |-> r.wrote, failed |-> r.failed]
              /\ syncLog' = Append(syncLog, [op |-> "ensureAllHeaders", id |-> "",
                                             failed |-> r.failed])
    /\ UNCHANGED <<store, tasks, objects, clock, nextId, probe, client, auth>>

\* a call of AppendSubmission
EngineAppend ==
    /\ Len(syncLog) < MaxCalls
    /\ \E id \in SampleIds, listOk \in BOOLEAN,
          fate \in [SheetIds -> {"ok", "write_failed"}] :
          \E row \in CreatedRows[id] :
             LET r == AppendSubmission(sheetRows, row, listOk, fate)
             IN  /\ listOk \/ \A s \in SheetIds : fate[s] = "ok"
                 /\ sheetRows' = r.rows
                 /\ out' = [op |-> "AppendSubmission", id |-> id, err |-> r.err, listed |-> listOk,
                            wrote |-> r.wrote, failed |-> r.failed]
                 /\ syncLog' = Append(syncLog, [op |-> "AppendSubmission", id |-> id,
                                                failed |-> r.failed])
    /\ UNCHANGED <<store, tasks, objects, clock, nextId, probe, client, auth>>

\* a call of UpdateSubmission
EngineUpdate ==
    /\ Len(syncLog) < MaxCalls
    /\ \E id \in SampleIds, listOk \in BOOLEAN, fate \in [SheetIds -> Fates] :
          \E row \in UpdatedRows[id] :
             LET r == UpdateSubmission(sheetRows, id, row, listOk, fate)
             IN  /\ listOk \/ \A s \in SheetIds : fate[s] = "ok"
                 /\ sheetRows' = r.rows
                 /\ out' = [op |-> "UpdateSubmission", id |-> id, err |-> r.err, listed |-> listOk,
                            wrote |-> r.wrote, failed |-> r.failed]
                 /\ syncLog' = Append(syncLog, [op |-> "UpdateSubmission", id |-> id,
                                                failed |-> r.failed])
    /\ UNCHANGED <<store, tasks, objects, clock, nextId, probe, client, auth>>

NextSync == EngineStartup \/ EngineAppend \/ EngineUpdate

SpecSync == InitSync /\ [][NextSync]_vars

\* the engine calls made for one submission id, oldest first
CallsFor(id) == SelectSeq(syncLog, LAMBDA e : e.id = id)

\* the calls for id are one AppendSubmission followed by one UpdateSubmission
AppendThenUpdate(id) ==
    /\ Len(CallsFor(id)) = 2
    /\ CallsFor(id)[1].op = "AppendSubmission"
    /\ CallsFor(id)[2].op = "UpdateSubmission"

\* C3 (as stated): after AppendSubmission and then UpdateSubmission for one
\* id, run one after the other, every registered spreadsheet has exactly one
\* row whose column A is that id.
C3_ExactlyOneRow ==
    \A id \in SampleIds : AppendThenUpdate(id) =>
        \A s \in SheetIds : CountRows(sheetRows[s], id) = 1

\* C3 (as amended): after AppendSubmission and then UpdateSubmission for one
\* id, run one after the other, every registered spreadsheet has exactly one
\* row for that id, except a spreadsheet on which both calls failed, which
\* has none; no spreadsheet has two.
C3_OneRowUnlessBothFailed ==
    \A id \in SampleIds : AppendThenUpdate(id) =>
        \A s \in SheetIds :
            CountRows(sheetRows[s], id) =
                IF s \in CallsFor(id)[1].failed /\ s \in CallsFor(id)[2].failed
                THEN 0 ELSE 1

\* C3 witness: both calls ran without a failure and a spreadsheet holds the
\* updated row once.
C3_Witness ==
    \E id \in SampleIds :
        /\ AppendThenUpdate(id)
        /\ CallsFor(id)[1].failed = {} /\ CallsFor(id)[2].failed = {}
        /\ \A s \in SheetIds :
              /\ CountRows(sheetRows[s], id) = 1
              /\ \E i \in 1..Len(sheetRows[s]) :
                    sheetRows[s][i][1] = id /\ sheetRows[s][i][7] = "second visit"

\* the step is a call of UpdateSubmission
IsUpdateCall == Len(syncLog') = Len(syncLog) + 1 /\ out'.op = "UpdateSubmission"

\* no cell of column A of the rows is id
Absent(rows, id) == FindRow(ColumnA(rows), id) = -1

\* the rows, followed by an encoding of the updated submission
AppendedTo(rows, id) == {Append(rows, row) : row \in UpdatedRows[id]}

\* C4 (as stated): UpdateSubmission for an id that no cell of column A of a
\* spreadsheet holds appends a row for the submission to that spreadsheet and
\* returns no error.
C4_AbsentIdAppended ==
    [][IsUpdateCall =>
        \A s \in SheetIds : Absent(sheetRows[s], out'.id) =>
            /\ sheetRows'[s] \in AppendedTo(sheetRows[s], out'.id)
            /\ ~out'.err]_vars

\* C4 (as amended): UpdateSubmission for an id that no cell of column A of a
\* spreadsheet holds appends a row for the submission to that spreadsheet
\* when the listing of the spreadsheets, the read of column A and the append
\* succeed, and leaves the spreadsheet as it was otherwise; it returns an
\* error exactly when the listing of the spreadsheets fails, never because
\* of the read or the append.
C4_AbsentIdAppendedUnlessFailed ==
    [][IsUpdateCall =>
        /\ out'.err = ~out'.listed
        /\ \A s \in SheetIds : Absent(sheetRows[s], out'.id) =>
              IF s \in out'.failed
              THEN sheetRows'[s] = sheetRows[s]
              ELSE sheetRows'[s] \in AppendedTo(sheetRows[s], out'.id)]_vars

\* C4 witness: UpdateSubmission has run without a failure as the first call
\* for its id and the spreadsheets hold the appended row.
C4_Witness ==
    /\ out.op = "UpdateSubmission" /\ out.failed = {} /\ ~out.err
    /\ Len(CallsFor(out.id)) = 1
    /\ \A s \in SheetIds : CountRows(sheetRows[s], out.id) = 1

\* cell A1 of the sheet holds something
A1NonEmpty(rows) == Len(rows) > 0 /\ Len(rows[1]) > 0 /\ rows[1][1] # ""

\* C5: a call of ensureHeaders on a spreadsheet whose cell A1 is not empty
\* issues no write and leaves the spreadsheet's rows as they were, so repeated
\* calls neither duplicate nor alter the header row.
C5_EnsureHeadersIdempotent ==
    [][(Len(syncLog') = Len(syncLog) + 1 /\ out'.op = "ensureAllHeaders") =>
        \A s \in SheetIds : A1NonEmpty(sheetRows[s]) =>
            s \notin out'.wrote /\ sheetRows'[s] = sheetRows[s]]_vars

\* C5 witness: ensureHeaders has run on a spreadsheet at two starts, without
\* a failure, the second time without a write, and the sheet is the header
\* row alone.
C5_Witness ==
    \E s \in SheetIds :
        /\ Len(syncLog) >= 2
        /\ syncLog[1].op = "ensureAllHeaders" /\ s \notin syncLog[1].failed
        /\ syncLog[2].op = "ensureAllHeaders" /\ s \notin syncLog[2].failed
        /\ out.op = "ensureAllHeaders" /\ s \notin out.wrote
        /\ sheetRows[s] = <<Headers>>

-----------------------------------------------------------------------------
(* Requesters and requests of the handlers *)

\* the user the auth middleware puts in the request context
Users ==
    {[ID |-> "user_1", Role |-> "observer"],
     [ID |-> "user_2", Role |-> "researcher"],
     [ID |-> "admin_1", Role |-> "admin"]}

\* create payloads: three that bind, and four that lack a required key or
\* carry a date that does not parse
CreateRequests ==
    {FieldRequest, OthersRequest, GoneFieldRequest,
     [OthersRequest EXCEPT !.Date = 0],
     [OthersRequest EXCEPT !.Date = MalformedDate],
     [OthersRequest EXCEPT !.GrowthStage = ""],
     [OthersRequest EXCEPT !.ObserverName = ""]}

\* a body that is not the JSON of an UpdateSubmissionRequest
MalformedUpdate == [malformed |-> TRUE]

\* update payloads: a function from the keys the JSON carries to their values
UpdateRequests ==
    {[Notes |-> "second visit", Status |-> "approved"],
     [OtherFieldName |-> "Plot 12"],
     MalformedUpdate}

\* an id that names no document
MissingId == "sub_0"

\* submission ids a client can name in a path
RequestIds == DocIds \cup {MissingId}

\* the submission_id values of uploads made before the submission exists
TempIds == {"temp_17"}

\* submission_id form values of an upload that passes the form checks
UploadIds == RequestIds \cup TempIds \cup {"abc"}

\* upload forms: submission_id, file_type and the file's name ("" when the
\* form carries no file).  An image for every id, an audio file for the
\* documents, and four forms the handler rejects.
UploadForms ==
    {[submission_id |-> id, file_type |-> "image", file |-> "leaf.jpg"] : id \in UploadIds}
    \cup {[submission_id |-> id, file_type |-> "audio", file |-> "note.ogg"] : id \in DocIds}
    \cup {[submission_id |-> "", file_type |-> "image", file |-> "leaf.jpg"],
          [submission_id |-> MissingId, file_type |-> "", file |-> "leaf.jpg"],
          [submission_id |-> MissingId, file_type |-> "image", file |-> ""],
          [submission_id |-> MissingId, file_type |-> "image", file |-> "note.ogg"]}

\* filepath.Ext of the upload names
Ext(filename) ==
    CASE filename = "leaf.jpg" -> ".jpg"
      [] filename = "note.ogg" -> ".ogg"
      [] OTHER -> ""

\* utils.ValidateMediaType
ValidateMediaType(filename, fileType) ==
    CASE fileType = "image" -> Ext(filename) \in {".jpg", ".jpeg", ".png", ".webp"}
      [] fileType = "video" -> Ext(filename) \in {".mp4", ".mov", ".webm"}
      [] fileType = "audio" -> Ext(filename) \in {".mp3", ".wav", ".ogg", ".webm"}
      [] OTHER -> FALSE

BucketName == "bucket"

\* whether the document exists
Exists(id) == id \in DocIds /\ store[id] # None

\* "Check permissions" of the submission handlers
Permitted(user, submission) == user.Role = "admin" \/ submission.UserID = user.ID

\* the response of a handler; body is None or <<data>>
Response(op, user, id, req, fail, status, body) ==
    [op |-> op, user |-> user, id |-> id, req |-> req, fail |-> fail,
     status |-> status, body |-> body]

\* a handler that calls the sync instead of starting it with `go`: no
\* response is written when the sync starts
CallSync(kind, submission, fieldName, status) ==
    [kind |-> kind, submission |-> submission, fieldName |-> fieldName,
     pc |-> "fetch", todo |-> << >>, row |-> << >>, rowIndex |-> -1,
     failed |-> {},
     resp |-> None]

\* the goroutine a handler starts with `go`, and the response the handler
\* writes right after starting it.  pc is the goroutine's position, row the
\* row it encoded, todo the sheets its loop has yet to visit, rowIndex the
\* result of its last scan, failed the sheets on which a call of its failed.
GoSync(kind, submission, fieldName, status) ==
    [kind |-> kind, submission |-> submission, fieldName |-> fieldName,
     pc |-> "fetch", todo |-> << >>, row |-> << >>, rowIndex |-> -1,
     failed |-> {},
     resp |-> <<[status |-> status, body |-> <<submission>>]>>]

-----------------------------------------------------------------------------
(* Submission handlers.  Each runs as one step; `fail` names the backend    *)
(* call of the handler that fails, "none" when none does.                   *)

ServeCreateSubmission(user, req, fail) ==
    /\ clock < MaxClock
    /\ clock' = clock + 1
    /\ IF BindCreate(req) # "ok"
       THEN /\ out' = Response("CreateSubmission", user, "", req, fail, 400, None)
            /\ UNCHANGED <<store, tasks, nextId>>
       ELSE /\ nextId < MaxIds
            /\ nextId' = nextId + 1
            /\ LET submission == NewSubmission(req, user.ID, GenerateID(nextId + 1), clock + 1)
               IN  IF fail = "set"
                   THEN /\ out' = Response("CreateSubmission", user, "", req, fail, 500, None)
                        /\ UNCHANGED <<store, tasks>>
                   ELSE /\ store' = [store EXCEPT ![submission.ID] = <<submission>>]
                        /\ tasks' = Append(tasks,
                              GoSync("append", submission,
                                     SheetFieldName(submission, fail # "field"), 201))
                        /\ out' = Response("CreateSubmission", user, submission.ID, req,
                                           fail, 201, <<submission>>)
    /\ UNCHANGED <<sheetRows, objects, probe, auth, syncLog>>

\* SubmissionHandler.CreateSubmission for a request of another client than the form
CreateSubmission(user, req, fail) ==
    ServeCreateSubmission(user, req, fail) /\ UNCHANGED client

\* the Field of a SubmissionResponse
ResponseField(submission) ==
    IF submission.FieldID # "others" /\ submission.FieldID # ""
    THEN <<[ID |-> submission.FieldID, Name |-> fields[submission.FieldID]]>>
    ELSE IF submission.OtherFieldName # ""
         THEN <<[ID |-> "others", Name |-> submission.OtherFieldName]>>
         ELSE None

\* models.SubmissionResponse
SubmissionResponse(submission, field) == [submission |-> submission, Field |-> field]

GetSubmission(user, id, fail) ==
    /\ clock < MaxClock
    /\ clock' = clock + 1
    /\ out' =
        IF ~Exists(id) \/ fail = "get"
        THEN Response("GetSubmission", user, id, None, fail, 404, None)
        ELSE LET submission == store[id][1]
             IN  IF ~Permitted(user, submission)
                 THEN Response("GetSubmission", user, id, None, fail, 403, None)
                 ELSE IF /\ submission.FieldID # "others" /\ submission.FieldID # ""
                         /\ (fail = "field" \/ submission.FieldID \notin DOMAIN fields)
                      THEN Response("GetSubmission", user, id, None, fail, 500, None)
                      ELSE Response("GetSubmission", user, id, None, fail, 200,
                               <<SubmissionResponse(submission, ResponseField(submission))>>)
    /\ UNCHANGED <<store, sheetRows, tasks, objects, nextId, probe, client, auth, syncLog>>

\* the value a firestore.Update list gives a key: the payload's when the
\* payload carries the key, the stored one otherwise
Updated(req, key, stored) == IF key \in DOMAIN req THEN req[key] ELSE stored

\* the document after Doc(id).Update(ctx, updates)
ApplyUpdates(submission, req, now) ==
    [submission EXCEPT
        !.Date = Updated(req, "Date", @),
        !.GrowthStage = Updated(req, "GrowthStage", @),
        !.PlantConditions = Updated(req, "PlantConditions", @),
        !.TraitMeasurements = Updated(req, "TraitMeasurements", @),
        !.Coordinates = Updated(req, "Coordinates", @),
        !.Notes = Updated(req, "Notes", @),
        !.Images = Updated(req, "Images", @),
        !.Videos = Updated(req, "Videos", @),
        !.Audio = Updated(req, "Audio", @),
        !.Status = Updated(req, "Status", @),
        !.OtherFieldName = Updated(req, "OtherFieldName", @),
        !.FieldID = IF "OtherFieldName" \in DOMAIN req THEN "others"
                    ELSE Updated(req, "FieldID", @),
        !.UpdatedAt = now]

\* SubmissionHandler.UpdateSubmission
ServeUpdateSubmission(user, id, req, fail) ==
    /\ clock < MaxClock
    /\ clock' = clock + 1
    /\ IF "malformed" \in DOMAIN req
       THEN /\ out' = Response("UpdateSubmission", user, id, req, fail, 400, None)
            /\ UNCHANGED <<store, tasks>>
       ELSE IF ~Exists(id) \/ fail = "get"
       THEN /\ out' = Response("UpdateSubmission", user, id, req, fail, 404, None)
            /\ UNCHANGED <<store, tasks>>
       ELSE IF ~Permitted(user, store[id][1])
       THEN /\ out' = Response("UpdateSubmission", user, id, req, fail, 403, None)
            /\ UNCHANGED <<store, tasks>>
       ELSE IF fail = "update"
       THEN /\ out' = Response("UpdateSubmission", user, id, req, fail, 500, None)
            /\ UNCHANGED <<store, tasks>>
       ELSE LET submission == ApplyUpdates(store[id][1], req, clock + 1)
            IN  /\ store' = [store EXCEPT ![id] = <<submission>>]
                /\ IF fail = "reget"
                   THEN /\ out' = Response("UpdateSubmission", user, id, req, fail, 500, None)
                        /\ UNCHANGED tasks
                   ELSE /\ tasks' = Append(tasks,
                              GoSync("update", submission,
                                     SheetFieldName(submission, fail # "field"), 200))
                        /\ out' = Response("UpdateSubmission", user, id, req, fail, 200,
                                           <<submission>>)
    /\ UNCHANGED <<sheetRows, objects, nextId, probe, auth, syncLog>>

\* SubmissionHandler.UpdateSubmission for a request of another client than the form
PutSubmission(user, id, req, fail) ==
    ServeUpdateSubmission(user, id, req, fail) /\ UNCHANGED client

\* a Delete that also removes the rows of the submission from the sheets
DeleteSubmissionAndRows(user, id, fail) ==
    /\ clock < MaxClock
    /\ clock' = clock + 1
    /\ IF ~Exists(id) \/ fail = "get"
       THEN /\ out' = Response("DeleteSubmission", user, id, None, fail, 404, None)
            /\ UNCHANGED store
       ELSE IF ~Permitted(user, store[id][1])
       THEN /\ out' = Response("DeleteSubmission", user, id, None, fail, 403, None)
            /\ UNCHANGED store
       ELSE IF fail = "delete"
       THEN /\ out' = Response("DeleteSubmission", user, id, None, fail, 500, None)
            /\ UNCHANGED store
       ELSE /\ out' = Response("DeleteSubmission", user, id, None, fail, 200, None)
            /\ store' = [store EXCEPT ![id] = None]
    /\ sheetRows' = [s \in SheetIds |->
          IF Exists(id) /\ Permitted(user, store[id][1]) /\ fail = "none"
          THEN SelectSeq(sheetRows[s], LAMBDA row : row[1] # id)
          ELSE sheetRows[s]]
    /\ UNCHANGED <<tasks, objects, nextId, probe, client, auth, syncLog>>

DeleteSubmission(user, id, fail) ==
    /\ clock < MaxClock
    /\ clock' = clock + 1
    /\ IF ~Exists(id) \/ fail = "get"
       THEN /\ out' = Response("DeleteSubmission", user, id, None, fail, 404, None)
            /\ UNCHANGED store
       ELSE IF ~Permitted(user, store[id][1])
       THEN /\ out' = Response("DeleteSubmission", user, id, None, fail, 403, None)
            /\ UNCHANGED store
       ELSE IF fail = "delete"
       THEN /\ out' = Response("DeleteSubmission", user, id, None, fail, 500, None)
            /\ UNCHANGED store
       ELSE /\ out' = Response("DeleteSubmission", user, id, None, fail, 200, None)
            /\ store' = [store EXCEPT ![id] = None]
    /\ UNCHANGED <<sheetRows, tasks, objects, nextId, probe, client, auth, syncLog>>

-----------------------------------------------------------------------------
(* Media handler *)

\* a transaction that puts the URL at the front of its list
addMediaToSubmissionFront(submission, mediaURL, fileType, now) ==
    [submission EXCEPT
        !.Images = IF fileType = "image" THEN <<mediaURL>> \o @ ELSE @,
        !.Videos = IF fileType = "video" THEN <<mediaURL>> \o @ ELSE @,
        !.Audio = IF fileType = "audio" THEN <<mediaURL>> \o @ ELSE @,
        !.UpdatedAt = now]

\* a transaction that writes the lists back without the time stamp
addMediaToSubmissionNoStamp(submission, mediaURL, fileType, now) ==
    [submission EXCEPT
        !.Images = IF fileType = "image" THEN Append(@, mediaURL) ELSE @,
        !.Videos = IF fileType = "video" THEN Append(@, mediaURL) ELSE @,
        !.Audio = IF fileType = "audio" THEN Append(@, mediaURL) ELSE @]

\* the document addMediaToSubmission's transaction writes back
addMediaToSubmission(submission, mediaURL, fileType, now) ==
    [submission EXCEPT
        !.Images = IF fileType = "image" THEN Append(@, mediaURL) ELSE @,
        !.Videos = IF fileType = "video" THEN Append(@, mediaURL) ELSE @,
        !.Audio = IF fileType = "audio" THEN Append(@, mediaURL) ELSE @,
        !.UpdatedAt = now]

\* the object name UploadMedia generates
ObjectName(submissionID, uuid, now, ext) ==
    submissionID \o "/" \o uuid \o "_00010101_0000" \o Pad(ToString(now), 2) \o ext

MediaURL(filename) == "https://storage.googleapis.com/" \o BucketName \o "/" \o filename

\* submissionID[:5] != "temp_", on an id of five characters or more
NotTemp(submissionID) == submissionID \notin TempIds

ServeUploadMedia(user, submissionID, fileType, file, fail) ==
    /\ clock < MaxClock
    /\ clock' = clock + 1
    /\ LET req == [file_type |-> fileType, file |-> file]
           rejected ==
               \/ submissionID = ""
               \/ fileType = ""
               \/ file = ""
               \/ ~ValidateMediaType(file, fileType)
           filename == ObjectName(submissionID, GenerateID(nextId + 1), clock + 1, Ext(file))
           mediaURL == MediaURL(filename)
           uploaded == [filename |-> filename, url |-> mediaURL, file_type |-> fileType]
       IN  IF rejected
           THEN /\ out' = Response("UploadMedia", user, submissionID, req, fail, 400, None)
                /\ UNCHANGED <<store, objects, nextId>>
           ELSE /\ nextId < MaxIds
                /\ nextId' = nextId + 1
                /\ IF fail \in {"copy", "close"}
                   THEN \* io.Copy or wc.Close failed: no object is created
                        /\ out' = Response("UploadMedia", user, submissionID, req, fail,
                                           500, None)
                        /\ UNCHANGED <<store, objects>>
                   ELSE /\ objects' = objects \cup {filename}
                        /\ IF Len(submissionID) < 5
                           THEN \* submissionID[:5] panics; gin's Recovery answers 500
                                /\ out' = Response("UploadMedia", user, submissionID, req,
                                                   fail, 500, None)
                                /\ UNCHANGED store
                           ELSE IF ~NotTemp(submissionID)
                           THEN /\ out' = Response("UploadMedia", user, submissionID, req,
                                                   fail, 200, <<uploaded>>)
                                /\ UNCHANGED store
                           ELSE IF ~Exists(submissionID) \/ fail = "tx"
                           THEN /\ out' = Response("UploadMedia", user, submissionID, req,
                                                   fail, 500, None)
                                /\ UNCHANGED store
                           ELSE /\ store' = [store EXCEPT ![submissionID] =
                                      <<addMediaToSubmission(@[1], mediaURL, fileType,
                                                             clock + 1)>>]
                                /\ out' = Response("UploadMedia", user, submissionID, req,
                                                   fail, 200, <<uploaded>>)
    /\ UNCHANGED <<sheetRows, tasks, probe, auth, syncLog>>

\* MediaHandler.UploadMedia for a request of another client than the form
UploadMedia(user, submissionID, fileType, file, fail) ==
    ServeUploadMedia(user, submissionID, fileType, file, fail) /\ UNCHANGED client

-----------------------------------------------------------------------------
(* The handlers on their own: requests are handled one at a time, any       *)
(* backend call may fail, and the sync goroutines they start do not run.    *)

InitCrud ==
    /\ InitClient
    /\ InitAuth
    /\ store = NoStore
    /\ sheetRows = [s \in SheetIds |-> <<Headers>>]
    /\ tasks = << >>
    /\ objects = {}
    /\ clock = 0
    /\ nextId = 0
    /\ out = NoOut
    /\ probe = NoProbe
    /\ syncLog = << >>

\* A failed read of the field document acts as a field that does not exist,
\* a failed io.Copy as a failed wc.Close, and a failed ACL call is ignored:
\* the requests below leave these failures out.
NextCrud ==
    \/ \E user \in Users, req \in CreateRequests, fail \in {"none", "set"} :
          /\ BindCreate(req) # "ok" => fail = "none"
          /\ CreateSubmission(user, req, fail)
    \/ \E user \in Users, id \in RequestIds, fail \in {"none", "get"} :
          GetSubmission(user, id, fail)
    \/ \E user \in Users, id \in RequestIds, req \in UpdateRequests,
          fail \in {"none", "get", "update", "reget"} :
          /\ req = MalformedUpdate => fail = "none"
          /\ PutSubmission(user, id, req, fail)
    \/ \E user \in Users, id \in RequestIds, fail \in {"none", "get", "delete"} :
          DeleteSubmission(user, id, fail)
    \/ \E user \in Users, form \in UploadForms, fail \in {"none", "close", "tx"} :
          UploadMedia(user, form.submission_id, form.file_type, form.file, fail)

SpecCrud == InitCrud /\ [][NextCrud]_vars

-----------------------------------------------------------------------------
(* Claims about the handlers *)

\* the submission handlers that check ownership
OwnerChecked == {"GetSubmission", "UpdateSubmission", "DeleteSubmission"}

\* C6: when no backend call fails, a requester without the admin role who
\* reads, updates or deletes an existing submission of another user receives
\* 403, whatever the payload.
C6_ForeignRequestForbidden ==
    [][(/\ out'.op \in OwnerChecked
        /\ out'.fail = "none"
        /\ Exists(out'.id)
        /\ ~Permitted(out'.user, store[out'.id][1]))
       => out'.status = 403]_vars

\* C7: a step changes or removes a stored submission only when the requester
\* is its creating user or an admin.
C7_OnlyOwnerOrAdminChanges ==
    [][\A id \in DocIds :
          (store[id] # None /\ store'[id] # store[id])
              => Permitted(out'.user, store[id][1])]_vars

\* the create payload lacks date, growth_stage or observer_name
LacksRequired(req) == req.Date = 0 \/ req.GrowthStage = "" \/ req.ObserverName = ""

\* C9: a create request that lacks date, growth_stage or observer_name is
\* answered 400, stores no submission and starts no sync task.
C9_InvalidCreateRejected ==
    [][(out'.op = "CreateSubmission" /\ LacksRequired(out'.req))
       => (out'.status = 400 /\ store' = store /\ tasks' = tasks)]_vars

\* C9 witness: with a submission stored and its sync task started, a create
\* request without observer_name has been answered 400.
C9_Witness ==
    /\ out.op = "CreateSubmission"
    /\ out.req.ObserverName = ""
    /\ out.status = 400
    /\ Len(tasks) = 1
    /\ \E id \in DocIds : store[id] # None

\* C10: when no backend call fails, a create request with date, growth_stage
\* and observer_name is answered 201 with a non-empty id and status
\* "submitted", and the creator's GET of that id right after is answered 200
\* with the request's growth_stage and observer_name.
C10_CreateThenGet ==
    [][/\ (/\ out'.op = "CreateSubmission"
           /\ out'.fail = "none"
           /\ out'.req.Date > 0
           /\ ~LacksRequired(out'.req))
          => (/\ out'.status = 201
              /\ out'.id # ""
              /\ out'.body[1].ID = out'.id
              /\ out'.body[1].Status = "submitted")
       /\ (/\ out.op = "CreateSubmission"
           /\ out.status = 201
           /\ out'.op = "GetSubmission"
           /\ out'.fail = "none"
           /\ out'.id = out.id
           /\ out'.user = out.user)
          => (/\ out'.status = 200
              /\ out'.body[1].submission.GrowthStage = out.req.GrowthStage
              /\ out'.body[1].submission.ObserverName = out.req.ObserverName)]_vars

-----------------------------------------------------------------------------
(* The program: the handlers, and the sync goroutines they start running    *)
(* one backend call at a time, in any interleaving with the handlers and    *)
(* with one another.  A goroutine may stop anywhere: no step is forced.     *)

\* tasks with goroutine i replaced
SetTask(i, t) == [tasks EXCEPT ![i] = t]

\* the position after the loop is done with the head of todo
NextRound(t) ==
    IF Len(t.todo) <= 1 THEN "done"
    ELSE IF t.kind = "append" THEN "write" ELSE "read"

\* fetchSheets at the head of AppendSubmission and UpdateSubmission; a
\* failure is returned to the goroutine, which prints it.  AppendSubmission
\* encodes its row once, before its loop.
TaskFetch(i, listOk, it) ==
    LET t == tasks[i]
    IN  /\ t.pc = "fetch"
        /\ tasks' = SetTask(i,
              IF ~listOk THEN [t EXCEPT !.pc = "failed", !.failed = SheetIds]
              ELSE [t EXCEPT
                      !.todo = SheetOrder,
                      !.row = IF t.kind = "append"
                              THEN submissionToRow(t.submission, t.fieldName, it)
                              ELSE << >>,
                      !.pc = IF t.kind = "append" THEN "write" ELSE "read"])
        /\ UNCHANGED <<store, sheetRows, objects, clock, nextId, out, probe, syncLog,
                       client, auth>>

\* UpdateSubmission's Values.Get of column A and its scan for the id
TaskRead(i, readOk) ==
    LET t == tasks[i]
        s == Head(t.todo)
    IN  /\ t.pc = "read"
        /\ tasks' = SetTask(i,
              IF ~readOk
              THEN [t EXCEPT !.failed = @ \cup {s}, !.todo = Tail(@),
                             !.pc = NextRound(t)]
              ELSE [t EXCEPT
                      !.rowIndex = FindRow(ColumnA(sheetRows[s]), t.submission.ID),
                      !.pc = "write"])
        /\ UNCHANGED <<store, sheetRows, objects, clock, nextId, out, probe, syncLog,
                       client, auth>>

\* the write of one round: AppendSubmission's Values.Append, or
\* UpdateSubmission's appendRow or Values.Update with the row it encodes then
TaskWrite(i, writeOk, it) ==
    LET t == tasks[i]
        s == Head(t.todo)
    IN  /\ t.pc = "write"
        /\ sheetRows' = [sheetRows EXCEPT ![s] =
              IF t.kind = "append"
              THEN AppendOneSheet(@, t.row, writeOk)
              ELSE UpdateWrite(@, t.rowIndex,
                               submissionToRow(t.submission, t.fieldName, it), writeOk)]
        /\ tasks' = SetTask(i,
              [t EXCEPT !.failed = IF writeOk THEN @ ELSE @ \cup {s},
                        !.todo = Tail(@),
                        !.rowIndex = -1,
                        !.pc = NextRound(t)])
        /\ UNCHANGED <<store, objects, clock, nextId, out, probe, client, auth, syncLog>>

\* the requests of the program's runs: one user, payloads that bind, no
\* failing record-store call
Clients == {u \in Users : u.ID = "user_1"}

Init == InitCrud

Next ==
    \/ \E user \in Clients, req \in {OthersRequest, FieldRequest} :
          CreateSubmission(user, req, "none")
    \/ \E user \in Clients, id \in DocIds : GetSubmission(user, id, "none")
    \/ \E user \in Clients, id \in DocIds :
          PutSubmission(user, id, [Notes |-> "second visit", Status |-> "approved"], "none")
    \/ \E user \in Clients, id \in DocIds : DeleteSubmission(user, id, "none")
    \/ \E user \in Clients, id \in DocIds :
          UploadMedia(user, id, "image", "leaf.jpg", "none")
    \/ \E i \in 1..Len(tasks), listOk \in BOOLEAN :
          \E it \in Iterations(tasks[i].submission) : TaskFetch(i, listOk, it)
    \/ \E i \in 1..Len(tasks), readOk \in BOOLEAN : TaskRead(i, readOk)
    \/ \E i \in 1..Len(tasks), writeOk \in BOOLEAN :
          \E it \in Iterations(tasks[i].submission) : TaskWrite(i, writeOk, it)

Spec == Init /\ [][Next]_vars

\* the response Create and Update write: 201 or 200 with the submission
HandlerResponse(t) ==
    <<[status |-> IF t.kind = "append" THEN 201 ELSE 200, body |-> <<t.submission>>]>>

-----------------------------------------------------------------------------
(* Claims about what Update, Delete and the media attach write *)

\* C11: a successful Update gives every stored field the payload carries the
\* payload's value, leaves every other stored field as it was, and sets
\* updated_at to the time of the call.
C11_UpdateFrame ==
    [][(out'.op = "UpdateSubmission" /\ out'.status = 200)
       => LET old == store[out'.id][1]
              new == store'[out'.id][1]
              req == out'.req
          IN  /\ \A k \in DOMAIN old \ {"UpdatedAt"} :
                    new[k] = IF k \in DOMAIN req THEN req[k] ELSE old[k]
              /\ new.UpdatedAt = clock']_vars

\* C12: a stored submission's id is the id it is stored under, a new document
\* gets the id generated last, which no document had before, a stored
\* submission's id and created_at never change, and every step that changes a
\* stored submission sets its updated_at to the time of the step.
C12_IdentityAndStamps ==
    [][\A id \in DocIds :
          /\ store'[id] # None => store'[id][1].ID = id
          /\ (store[id] = None /\ store'[id] # None)
             => (nextId' = nextId + 1 /\ id = GenerateID(nextId'))
          /\ (store[id] # None /\ store'[id] # None)
             => (/\ store'[id][1].ID = store[id][1].ID
                 /\ store'[id][1].CreatedAt = store[id][1].CreatedAt)
          /\ (store[id] # None /\ store'[id] # None /\ store'[id] # store[id])
             => store'[id][1].UpdatedAt = clock']_vars

\* C12 witness: a submission created at time 1, updated at time 2 and given
\* an image at time 3.
C12_Witness ==
    \E id \in DocIds :
        /\ store[id] # None
        /\ store[id][1].CreatedAt = 1
        /\ store[id][1].Status = "approved"
        /\ Len(store[id][1].Images) = 1
        /\ store[id][1].UpdatedAt = 3
        /\ out.op = "UploadMedia" /\ out.status = 200

\* C13: a Read, Update or Delete whose payload binds is answered 404 exactly
\* when no document has the id, 403 when the document exists and the
\* requester is neither its owner nor an admin, and 500 when the document
\* exists and the record store fails to fetch it.
C13_FetchStatus ==
    [][(out'.op \in OwnerChecked /\ out'.req # MalformedUpdate)
       => /\ (out'.status = 404) <=> ~Exists(out'.id)
          /\ (Exists(out'.id) /\ out'.fail = "get") => out'.status = 500
          /\ (/\ Exists(out'.id)
              /\ out'.fail # "get"
              /\ ~Permitted(out'.user, store[out'.id][1]))
             => out'.status = 403]_vars

\* C14: a Delete answered 200 removes the document and leaves every
\* spreadsheet row, every media object and the sync goroutines as they were,
\* and a Read of that id that follows is answered 404.
C14_DeleteFrame ==
    [][/\ (clock' # clock /\ out'.op = "DeleteSubmission" /\ out'.status = 200)
          => (/\ store[out'.id] # None
              /\ store' = [store EXCEPT ![out'.id] = None]
              /\ sheetRows' = sheetRows
              /\ objects' = objects
              /\ tasks' = tasks)
       /\ (/\ out.op = "DeleteSubmission" /\ out.status = 200
           /\ clock' # clock /\ out'.op = "GetSubmission" /\ out'.id = out.id)
          => out'.status = 404]_vars

\* C14 witness: a Read answered 404 for a submission that was created,
\* synced and deleted: its row is still in a spreadsheet.
C14_Witness ==
    /\ out.op = "GetSubmission" /\ out.status = 404
    /\ out.id \in DocIds
    /\ store[out.id] = None
    /\ \E s \in SheetIds : CountRows(sheetRows[s], out.id) = 1

-----------------------------------------------------------------------------
(* Queries on the submissions collection *)

\* the documents of the collection in the order a query without OrderBy
\* returns them: by document name
DocOrder == [n \in 1..MaxIds |-> GenerateID(n)]

\* a query that leaves out the Where("user_id", "==", user.ID) filter
AccessibleAll(st, user, id) == st[id] # None

\* whether the query of the handlers returns document id to the user:
\* Where("user_id", "==", user.ID) unless the user is an admin
Accessible(st, user, id) ==
    /\ st[id] # None
    /\ (user.Role # "admin" => st[id][1].UserID = user.ID)

\* query.Documents(ctx): the submissions the query returns, in document order
Documents(st, user) ==
    LET hit(n) == Accessible(st, user, DocOrder[n])
        F[n \in 0..MaxIds] ==
            IF n = 0 THEN << >>
            ELSE IF hit(n) THEN Append(F[n - 1], st[DocOrder[n]][1]) ELSE F[n - 1]
    IN  F[MaxIds]

\* Where("status", "==", status)
WhereStatus(docs, status) == SelectSeq(docs, LAMBDA d : d.Status = status)

\* Where("created_at", ">=", start) and Where("created_at", "<=", end)
WhereCreated(docs, start, end) ==
    SelectSeq(docs, LAMBDA d : start <= d.CreatedAt /\ d.CreatedAt <= end)

\* whether a comes before b under OrderBy("created_at", firestore.Desc); the
\* document name, in the same direction, breaks a tie
Before(a, b) ==
    \/ a.CreatedAt > b.CreatedAt
    \/ a.CreatedAt = b.CreatedAt /\ \E i, j \in 1..MaxIds :
          DocOrder[i] = a.ID /\ DocOrder[j] = b.ID /\ i > j

RECURSIVE OrderByCreatedDesc(_)
OrderByCreatedDesc(docs) ==
    IF Len(docs) = 0 THEN << >>
    ELSE LET i == CHOOSE i \in 1..Len(docs) :
                     \A j \in 1..Len(docs) : j # i => Before(docs[i], docs[j])
         IN  <<docs[i]>> \o
             OrderByCreatedDesc(SubSeq(docs, 1, i - 1) \o SubSeq(docs, i + 1, Len(docs)))

\* query.Offset(n)
Offset(docs, n) == SubSeq(docs, n + 1, Len(docs))

\* query.Limit(n)
Limit(docs, n) == SubSeq(docs, 1, IF Len(docs) < n THEN Len(docs) ELSE n)

\* fieldsMap[submission.FieldID] of GetSubmissions
ListedField(submission) ==
    IF submission.FieldID \in DOMAIN fields
    THEN <<[ID |-> submission.FieldID, Name |-> fields[submission.FieldID]]>>
    ELSE None

\* the data of the GetSubmissions response
SubmissionsPage(st, user, page, limit, status) ==
    LET all == Documents(st, user)
        filtered == IF status # "" THEN WhereStatus(all, status) ELSE all
        sorted == OrderByCreatedDesc(filtered)
        docs == Limit(IF page > 1 THEN Offset(sorted, (page - 1) * limit) ELSE sorted,
                      limit)
    IN  [submissions |->
            [i \in 1..Len(docs) |-> SubmissionResponse(docs[i], ListedField(docs[i]))],
         page |-> page, limit |-> limit, total |-> Len(docs)]

GetSubmissions(user, page, limit, status, fail) ==
    /\ clock < MaxClock
    /\ clock' = clock + 1
    /\ LET req == [page |-> page, limit |-> limit, status |-> status]
       IN  out' = IF fail = "query"
                  THEN Response("GetSubmissions", user, "", req, fail, 500, None)
                  ELSE Response("GetSubmissions", user, "", req, fail, 200,
                                <<SubmissionsPage(store, user, page, limit, status)>>)
    /\ UNCHANGED <<store, sheetRows, tasks, objects, nextId, probe, client, auth, syncLog>>

\* the header ExportSubmissions writes
ExportHeader ==
    <<"ID", "UserID", "FieldID", "FieldName", "Date", "GrowthStage",
      "Notes", "ObserverName", "Status", "CreatedAt", "UpdatedAt",
      "Latitude", "Longitude",
      "CulmLength", "PanicleLength", "PaniclesPerHill", "HillsObserved",
      "Healthy", "Unhealthy", "SignsOfPestInfestation", "PestDetails", "OtherPest",
      "SignsOfNutrientDeficiency", "NutrientDeficiencyDetails", "OtherNutrient",
      "WaterStress", "WaterStressLevel", "Lodging", "LodgingLevel",
      "WeedInfestation", "WeedInfestationLevel", "DiseaseSymptoms", "DiseaseDetails",
      "OtherDisease",
      "Other", "OtherConditionText",
      "Images", "Videos", "Audio">>

\* "Get Field Name" of ExportSubmissions
ExportFieldName(submission) ==
    IF submission.FieldID # "" /\ submission.FieldID \in DOMAIN fields
    THEN fields[submission.FieldID]
    ELSE ""

\* the record ExportSubmissions writes for a submission, as the list of its
\* cells; `it` is the order in which the detail maps are visited
ExportRecord(submission, it) ==
    <<submission.ID,
      submission.UserID,
      submission.FieldID,
      ExportFieldName(submission),
      FormatRFC3339(submission.Date),
      submission.GrowthStage,
      submission.Notes,
      submission.ObserverName,
      submission.Status,
      FormatRFC3339(submission.CreatedAt),
      FormatRFC3339(submission.UpdatedAt),
      SprintfF(submission.Coordinates.Latitude),
      SprintfF(submission.Coordinates.Longitude),
      SprintfF(submission.TraitMeasurements.CulmLength),
      SprintfF(submission.TraitMeasurements.PanicleLength),
      SprintfD(submission.TraitMeasurements.PaniclesPerHill),
      SprintfD(submission.TraitMeasurements.HillsObserved),
      SprintfT(submission.PlantConditions.Healthy),
      SprintfT(submission.PlantConditions.Unhealthy),
      SprintfT(submission.PlantConditions.SignsOfPestInfestation),
      mapToString(submission.PlantConditions.PestDetails, it.pest),
      submission.PlantConditions.OtherPest,
      SprintfT(submission.PlantConditions.SignsOfNutrientDeficiency),
      mapToString(submission.PlantConditions.NutrientDeficiencyDetails, it.nutrient),
      submission.PlantConditions.OtherNutrient,
      SprintfT(submission.PlantConditions.WaterStress),
      submission.PlantConditions.WaterStressLevel,
      SprintfT(submission.PlantConditions.Lodging),
      submission.PlantConditions.LodgingLevel,
      SprintfT(submission.PlantConditions.WeedInfestation),
      submission.PlantConditions.WeedInfestationLevel,
      SprintfT(submission.PlantConditions.DiseaseSymptoms),
      mapToString(submission.PlantConditions.DiseaseDetails, it.disease),
      submission.PlantConditions.OtherDisease,
      SprintfT(submission.PlantConditions.Other),
      submission.PlantConditions.OtherConditionText,
      Join(submission.Images, ","),
      Join(submission.Videos, ","),
      Join(submission.Audio, ",")>>

\* the records ExportSubmissions can write for the documents docs
ExportRecords(docs) ==
    {recs \in [1..Len(docs) -> UNION {{ExportRecord(docs[i], it) :
                                          it \in Iterations(docs[i])} :
                                      i \in 1..Len(docs)}] :
        \A i \in 1..Len(docs) :
            \E it \in Iterations(docs[i]) : recs[i] = ExportRecord(docs[i], it)}

\* the CSV as its header and the cells of its records
ExportSubmissions(user) ==
    /\ clock < MaxClock
    /\ clock' = clock + 1
    /\ \E records \in ExportRecords(Documents(store, user)) :
          out' = Response("ExportSubmissions", user, "", None, "none", 200,
                          <<[header |-> ExportHeader, records |-> records]>>)
    /\ UNCHANGED <<store, sheetRows, tasks, objects, nextId, probe, client, auth, syncLog>>

-----------------------------------------------------------------------------
(* Analytics handlers *)

\* a map[string]int that counts the occurrences of each value of a list
Counts(values) ==
    [v \in {values[i] : i \in 1..Len(values)} |->
        Cardinality({i \in 1..Len(values) : values[i] = v})]

\* the list of field `key` of the submissions docs
Column(docs, key) == [i \in 1..Len(docs) |-> docs[i][key]]

\* the keys of a map whose value is true
Selected(m) == {k \in DOMAIN m : m[k]}

\* the condition_frequency keys one submission increments
ConditionKeys(pc) ==
    (IF pc.Healthy THEN {"Healthy"} ELSE {})
    \cup (IF pc.Unhealthy THEN {"Unhealthy"} ELSE {})
    \cup (IF pc.SignsOfPestInfestation
          THEN {"Signs of pest infestation"}
               \cup {"Pest: " \o k : k \in Selected(pc.PestDetails)}
               \cup (IF pc.OtherPest # ""
                     THEN {"Pest: Other (" \o pc.OtherPest \o ")"} ELSE {})
          ELSE {})
    \cup (IF pc.SignsOfNutrientDeficiency
          THEN {"Signs of nutrient deficiency"}
               \cup {"Nutrient: " \o k : k \in Selected(pc.NutrientDeficiencyDetails)}
               \cup (IF pc.OtherNutrient # ""
                     THEN {"Nutrient: Other (" \o pc.OtherNutrient \o ")"} ELSE {})
          ELSE {})
    \cup (IF pc.WaterStress
          THEN {"Water stress (drought or flood)"}
               \cup (IF pc.WaterStressLevel # ""
                     THEN {"Water Stress Level: " \o pc.WaterStressLevel} ELSE {})
          ELSE {})
    \cup (IF pc.Lodging
          THEN {"Lodging (bent/broken stems)"}
               \cup (IF pc.LodgingLevel # ""
                     THEN {"Lodging Level: " \o pc.LodgingLevel} ELSE {})
          ELSE {})
    \cup (IF pc.WeedInfestation
          THEN {"Weed infestation"}
               \cup (IF pc.WeedInfestationLevel # ""
                     THEN {"Weed Infestation Level: " \o pc.WeedInfestationLevel}
                     ELSE {})
          ELSE {})
    \cup (IF pc.DiseaseSymptoms
          THEN {"Disease symptoms"}
               \cup {"Disease: " \o k : k \in Selected(pc.DiseaseDetails)}
               \cup (IF pc.OtherDisease # ""
                     THEN {"Disease: Other (" \o pc.OtherDisease \o ")"} ELSE {})
          ELSE {})
    \cup (IF pc.Other
          THEN {"Other"}
               \cup (IF pc.OtherConditionText # ""
                     THEN {"Other Condition: " \o pc.OtherConditionText} ELSE {})
          ELSE {})

\* conditionCounts: for each key, the submissions that increment it
ConditionCounts(docs) ==
    [k \in UNION {ConditionKeys(docs[i].PlantConditions) : i \in 1..Len(docs)} |->
        Cardinality({i \in 1..Len(docs) : k \in ConditionKeys(docs[i].PlantConditions)})]

\* models.DashboardData
DashboardData(st, user, now) ==
    LET docs == Documents(st, user)
    IN  [TotalSubmissions |-> Len(docs),
         SubmissionsByStatus |-> Counts(Column(docs, "Status")),
         SubmissionsByStage |-> Counts(Column(docs, "GrowthStage")),
         RecentSubmissions |-> Limit(OrderByCreatedDesc(docs), 5),
         LastUpdated |-> now]

GetDashboardData(user, fail) ==
    /\ clock < MaxClock
    /\ clock' = clock + 1
    /\ out' = IF fail = "query"
              THEN Response("GetDashboardData", user, "", None, fail, 500, None)
              ELSE Response("GetDashboardData", user, "", None, fail, 200,
                            <<DashboardData(store, user, clock + 1)>>)
    /\ UNCHANGED <<store, sheetRows, tasks, objects, nextId, probe, client, auth, syncLog>>

\* the seconds of a day; the clock counts seconds
SecondsPerDay == 86400

\* time.Time.Format("2006-01-02") of the t-th second after the zero time, for
\* times from a month before the zero time to a month after it
FormatDate(t) ==
    IF t >= 0
    THEN "0001-01-" \o Pad(ToString(1 + t \div SecondsPerDay), 2)
    ELSE "0000-12-" \o Pad(ToString(31 - ((-t - 1) \div SecondsPerDay)), 2)

\* stageProgression: for each field id other than "", the growth stages of
\* its submissions in document order
StageProgression(docs) ==
    [f \in {docs[i].FieldID : i \in 1..Len(docs)} \ {""} |->
        Column(SelectSeq(docs, LAMBDA d : d.FieldID = f), "GrowthStage")]

\* models.TrendsData
TrendsData(st, user, days, now) ==
    LET startDate == now - days * SecondsPerDay
        docs == WhereCreated(Documents(st, user), startDate, now)
    IN  [DailySubmissions |->
            Counts([i \in 1..Len(docs) |-> FormatDate(docs[i].CreatedAt)]),
         StageProgression |-> StageProgression(docs),
         Period |-> [start_date |-> FormatDate(startDate),
                     end_date |-> FormatDate(now),
                     days |-> days]]

GetTrends(user, days, fail) ==
    /\ clock < MaxClock
    /\ clock' = clock + 1
    /\ out' = IF fail = "query"
              THEN Response("GetTrends", user, "", [days |-> days], fail, 500, None)
              ELSE Response("GetTrends", user, "", [days |-> days], fail, 200,
                            <<TrendsData(store, user, days, clock + 1)>>)
    /\ UNCHANGED <<store, sheetRows, tasks, objects, nextId, probe, client, auth, syncLog>>

\* time.Parse("2006-01-02", s) on the dates the clients send: None is a
\* parse error
ParseDate(s) == IF s = "0001-01-01" THEN <<0>> ELSE None

generateSummaryReport(docs, now) ==
    [total_submissions |-> Len(docs),
     status_distribution |-> Counts(Column(docs, "Status")),
     stage_distribution |-> Counts(Column(docs, "GrowthStage")),
     condition_frequency |-> ConditionCounts(docs),
     generated_at |-> now]

generateDetailedReport(docs, now) ==
    [submissions |-> docs, total_count |-> Len(docs), generated_at |-> now]

\* the later of the dates of a non-empty list of submissions
LatestDate(docs) ==
    CHOOSE t \in {docs[i].Date : i \in 1..Len(docs)} :
        \A i \in 1..Len(docs) : docs[i].Date <= t

generateFieldAnalysisReport(docs, now) ==
    LET of(f) == SelectSeq(docs, LAMBDA d : d.FieldID = f)
        fieldData ==
            [f \in {docs[i].FieldID : i \in 1..Len(docs)} |->
                [submission_count |-> Len(of(f)),
                 stages |-> Counts(Column(of(f), "GrowthStage")),
                 conditions |-> ConditionCounts(of(f)),
                 latest_date |-> LatestDate(of(f))]]
    IN  [field_analysis |-> fieldData,
         total_fields |-> Cardinality(DOMAIN fieldData),
         generated_at |-> now]

\* the data of the GetReports response
ReportData(st, user, reportType, startDate, endDate, now) ==
    LET all == Documents(st, user)
        from == IF startDate # "" /\ ParseDate(startDate) # None
                THEN SelectSeq(all, LAMBDA d : ParseDate(startDate)[1] <= d.CreatedAt)
                ELSE all
        docs == IF endDate # "" /\ ParseDate(endDate) # None
                THEN SelectSeq(from, LAMBDA d : d.CreatedAt <= ParseDate(endDate)[1])
                ELSE from
    IN  CASE reportType = "detailed" -> generateDetailedReport(docs, now)
          [] reportType = "field_analysis" -> generateFieldAnalysisReport(docs, now)
          [] OTHER -> generateSummaryReport(docs, now)

GetReports(user, reportType, startDate, endDate, fail) ==
    /\ clock < MaxClock
    /\ clock' = clock + 1
    /\ LET req == [type |-> reportType, start_date |-> startDate, end_date |-> endDate]
       IN  out' = IF fail = "query"
                  THEN Response("GetReports", user, "", req, fail, 500, None)
                  ELSE Response("GetReports", user, "", req, fail, 200,
                         <<ReportData(store, user, reportType, startDate, endDate,
                                      clock + 1)>>)
    /\ UNCHANGED <<store, sheetRows, tasks, objects, nextId, probe, client, auth, syncLog>>

-----------------------------------------------------------------------------
(* The list, export and analytics handlers, with the handlers that change   *)
(* the collection they read.                                                *)

\* the handlers that answer from a query on the submissions collection
QueryOps ==
    {"GetSubmissions", "ExportSubmissions", "GetDashboardData", "GetTrends", "GetReports"}

NextQuery ==
    \/ \E user \in Users, req \in {FieldRequest, OthersRequest} :
          CreateSubmission(user, req, "none")
    \/ \E user \in Users, id \in DocIds :
          PutSubmission(user, id, [Notes |-> "second visit", Status |-> "approved"], "none")
    \/ \E user \in Users, id \in DocIds : DeleteSubmission(user, id, "none")
    \/ \E user \in Users, page \in {1, 2}, limit \in {1, 20},
          status \in {"", "submitted"}, fail \in {"none", "query"} :
          GetSubmissions(user, page, limit, status, fail)
    \/ \E user \in Users : ExportSubmissions(user)
    \/ \E user \in Users, fail \in {"none", "query"} : GetDashboardData(user, fail)
    \/ \E user \in Users, days \in {0, 30}, fail \in {"none", "query"} :
          GetTrends(user, days, fail)
    \/ \E user \in Users, reportType \in {"summary", "detailed", "field_analysis"},
          startDate \in {"", "0001-01-01"}, endDate \in {"", "0001-01-01", "soon"},
          fail \in {"none", "query"} :
          GetReports(user, reportType, startDate, endDate, fail)

SpecQuery == InitCrud /\ [][NextQuery]_vars

\* the collection without the submissions of the users other than user
OwnOnly(st, user) ==
    [id \in DocIds |->
        IF st[id] # None /\ st[id][1].UserID = user.ID THEN st[id] ELSE None]

\* the data a query handler answers the request req with at time now, on the
\* collection st
QueryData(op, st, user, req, now) ==
    CASE op = "GetSubmissions" ->
            {SubmissionsPage(st, user, req.page, req.limit, req.status)}
      [] op = "ExportSubmissions" ->
            {[header |-> ExportHeader, records |-> records] :
                records \in ExportRecords(Documents(st, user))}
      [] op = "GetDashboardData" -> {DashboardData(st, user, now)}
      [] op = "GetTrends" -> {TrendsData(st, user, req.days, now)}
      [] op = "GetReports" ->
            {ReportData(st, user, req.type, req.start_date, req.end_date, now)}

\* C15: what list, export, dashboard, trends and reports answer a requester
\* who is not an admin is what they answer on the collection without the
\* other users' submissions.
C15_OwnSubmissionsOnly ==
    [][(out'.op \in QueryOps /\ out'.status = 200 /\ out'.user.Role # "admin")
       => out'.body[1] \in
             QueryData(out'.op, OwnOnly(store, out'.user), out'.user, out'.req,
                       clock')]_vars

\* C15 witness: with a submission of user_1 and one of another user stored,
\* a list, dashboard, trends or report request of user_1 is answered with
\* one submission.
C15_Witness ==
    /\ out.op \in QueryOps /\ out.status = 200
    /\ out.user.ID = "user_1"
    /\ \E a, b \in DocIds :
          /\ store[a] # None /\ store[a][1].UserID = "user_1"
          /\ store[b] # None /\ store[b][1].UserID # "user_1"
    /\ \/ out.op = "GetSubmissions" /\ out.body[1].total = 1
       \/ out.op = "GetDashboardData" /\ out.body[1].TotalSubmissions = 1
       \/ out.op = "GetReports" /\ out.req.type = "detailed"
          /\ out.body[1].total_count = 1

\* C16: the header Export writes is the header row of the spreadsheets, and
\* each record it writes is, for some order of visiting the detail maps, the
\* row the codec produces for the stored submission with the field name the
\* sync uses (the field's name, or other_field_name when field_id is "" or
\* "others").
C16_ExportMatchesCodec ==
    [][(out'.op = "ExportSubmissions" /\ out'.status = 200)
       => /\ out'.body[1].header = Headers
          /\ \A i \in 1..Len(out'.body[1].records) :
                LET record == out'.body[1].records[i]
                    submission == store[record[1]][1]
                IN  \E it \in Iterations(submission) :
                        record = submissionToRow(submission,
                                                 SheetFieldName(submission, TRUE), it)]_vars

-----------------------------------------------------------------------------
(* Claims about the media attach and the sync goroutines *)

\* the list of a submission that holds the URLs of a kind of media
MediaList(fileType) ==
    CASE fileType = "image" -> "Images"
      [] fileType = "video" -> "Videos"
      [] fileType = "audio" -> "Audio"

\* the Images, Videos and Audio cells of a row
MediaCells(row) == <<row[37], row[38], row[39]>>

\* the media cells of the row of a submission
MediaCellsOf(submission) ==
    <<Join(submission.Images, ","), Join(submission.Videos, ","),
      Join(submission.Audio, ",")>>

-----------------------------------------------------------------------------
(* Concurrent uploads.  Every request runs in a goroutine of its own: an    *)
(* upload that has stored its object runs addMediaToSubmission, whose       *)
(* transaction reads the document, and commits its write only if the        *)
(* document was not written since the read; RunTransaction runs the         *)
(* function again after a failed commit.                                    *)

\* a commit that never fails
ConflictNever(read, current) == FALSE

\* whether the commit of a transaction that read `read` fails: the document
\* was written since (every write changes updated_at) or deleted
Conflict(read, current) == current # read

\* UploadMedia up to the call of addMediaToSubmission: the object is stored
\* and its URL made
AttachStart(user, submissionID, fileType, file) ==
    /\ Len(tasks) < MaxAttach
    /\ ValidateMediaType(file, fileType)
    /\ LET filename == ObjectName(submissionID, GenerateID(nextId + 1), clock, Ext(file))
       IN  /\ objects' = objects \cup {filename}
           /\ tasks' = Append(tasks,
                 [kind |-> "attach", user |-> user, id |-> submissionID,
                  file_type |-> fileType, filename |-> filename,
                  url |-> MediaURL(filename), pc |-> "get", read |-> None,
                  attempts |-> 0, resp |-> None])
    /\ nextId' = nextId + 1
    /\ UNCHANGED <<store, sheetRows, clock, out, probe, client, auth, syncLog>>

\* the response of an upload whose addMediaToSubmission returned
AttachResponse(t, ok) ==
    IF ok
    THEN Response("UploadMedia", t.user, t.id, [file_type |-> t.file_type], "none", 200,
                  <<[filename |-> t.filename, url |-> t.url, file_type |-> t.file_type]>>)
    ELSE Response("UploadMedia", t.user, t.id, [file_type |-> t.file_type], "tx", 500, None)

\* tx.Get(docRef); a missing document ends the transaction with its error
TxGet(i) ==
    LET t == tasks[i]
    IN  /\ t.kind = "attach" /\ t.pc = "get"
        /\ IF store[t.id] = None
           THEN /\ tasks' = SetTask(i, [t EXCEPT !.pc = "failed",
                                                 !.resp = <<AttachResponse(t, FALSE)>>])
                /\ out' = AttachResponse(t, FALSE)
           ELSE /\ tasks' = SetTask(i, [t EXCEPT !.pc = "commit", !.read = store[t.id]])
                /\ UNCHANGED out
        /\ UNCHANGED <<store, sheetRows, objects, clock, nextId, probe, client, auth, syncLog>>

\* tx.Set(docRef, submission) and the commit
TxCommit(i) ==
    LET t == tasks[i]
    IN  /\ t.kind = "attach" /\ t.pc = "commit"
        /\ IF ~Conflict(t.read, store[t.id])
           THEN /\ clock' = clock + 1
                /\ store' = [store EXCEPT ![t.id] =
                      <<addMediaToSubmission(t.read[1], t.url, t.file_type, clock + 1)>>]
                /\ tasks' = SetTask(i, [t EXCEPT !.pc = "done",
                                                 !.resp = <<AttachResponse(t, TRUE)>>])
                /\ out' = AttachResponse(t, TRUE)
           ELSE IF t.attempts + 1 < MaxAttempts
           THEN /\ tasks' = SetTask(i, [t EXCEPT !.pc = "get", !.read = None,
                                                 !.attempts = @ + 1])
                /\ UNCHANGED <<store, clock, out>>
           ELSE /\ tasks' = SetTask(i, [t EXCEPT !.pc = "failed", !.attempts = @ + 1,
                                                 !.resp = <<AttachResponse(t, FALSE)>>])
                /\ out' = AttachResponse(t, FALSE)
                /\ UNCHANGED <<store, clock>>
        /\ UNCHANGED <<sheetRows, objects, nextId, probe, client, auth, syncLog>>

\* a store with the submission user_1 created at time 1
InitAttach ==
    /\ InitClient
    /\ InitAuth
    /\ store = [NoStore EXCEPT !["sub_1"] =
                   <<NewSubmission(FieldRequest, "user_1", "sub_1", 1)>>]
    /\ sheetRows = [s \in SheetIds |-> <<Headers>>]
    /\ tasks = << >>
    /\ objects = {}
    /\ clock = 1
    /\ nextId = 1
    /\ out = NoOut
    /\ probe = NoProbe
    /\ syncLog = << >>

NextAttach ==
    \/ \E user \in Clients, id \in DocIds :
          \/ AttachStart(user, id, "image", "leaf.jpg")
          \/ AttachStart(user, id, "audio", "note.ogg")
    \/ \E i \in 1..Len(tasks) : TxGet(i)
    \/ \E i \in 1..Len(tasks) : TxCommit(i)

SpecAttach == InitAttach /\ [][NextAttach]_vars

\* C18: the URL of every upload answered 200 is in the list of its kind of
\* the submission, once, whatever the other uploads to the submission have
\* done since.
C18_NoLostAttach ==
    \A i \in 1..Len(tasks) :
        (tasks[i].kind = "attach" /\ tasks[i].pc = "done")
        => /\ store[tasks[i].id] # None
           /\ LET list == store[tasks[i].id][1][MediaList(tasks[i].file_type)]
              IN  Cardinality({n \in 1..Len(list) : list[n] = tasks[i].url}) = 1

\* C18 witness: three uploads of images to one submission have all ended,
\* two answered 200 after reading the same document, one of them on its
\* second run, and one answered 500 after its commits failed.
C18_Witness ==
    /\ Len(tasks) = 3
    /\ \A i \in 1..3 : tasks[i].id = "sub_1" /\ tasks[i].file_type = "image"
    /\ \E i, j, k \in 1..3 :
          /\ tasks[i].pc = "done" /\ tasks[i].attempts = 0
          /\ tasks[j].pc = "done" /\ tasks[j].attempts = 1
          /\ tasks[k].pc = "failed" /\ tasks[k].attempts = MaxAttempts
    /\ Len(store["sub_1"][1].Images) = 3

-----------------------------------------------------------------------------
(* Claims about the order of the sync goroutines *)

\* the rows a goroutine can write for its submission
RowsOf(t) ==
    {submissionToRow(t.submission, t.fieldName, it) : it \in Iterations(t.submission)}

\* the row of a sheet that UpdateSubmission's scan finds for id
FoundRow(rows, id) == rows[FindRow(ColumnA(rows), id) + 1]

\* goroutines i and j are the syncs of two Updates of one submission, i
\* started first, and both have ended without a failed call
TwoUpdatesDone(i, j) ==
    /\ i < j
    /\ tasks[i].kind = "update" /\ tasks[j].kind = "update"
    /\ tasks[i].submission.ID = tasks[j].submission.ID
    /\ tasks[i].pc = "done" /\ tasks[j].pc = "done"
    /\ tasks[i].failed = {} /\ tasks[j].failed = {}

\* C19: the sync of an Update that has found the submission's row in a
\* spreadsheet and whose write succeeds leaves its own row on that line,
\* whatever the line held and whichever Update the record store applied
\* last: the last sync to reach the write wins, not the last Update.
C19_LastWriterWins ==
    [][\A i \in 1..Len(tasks) :
          ( /\ tasks[i].kind = "update" /\ tasks[i].pc = "write"
            /\ tasks[i].rowIndex # -1
            /\ tasks'[i] # tasks[i]
            /\ tasks'[i].failed = tasks[i].failed )
          => sheetRows'[Head(tasks[i].todo)][tasks[i].rowIndex + 1] \in RowsOf(tasks[i])
      ]_vars

\* C19 witness: every goroutine has ended, the syncs of two Updates of a
\* submission without a failed call; the store holds the submission of the
\* second Update, and the one row of the submission in a spreadsheet is the
\* row of the first Update, which is not a row of the second.
C19_Witness ==
    /\ \A n \in 1..Len(tasks) : tasks[n].pc = "done"
    /\ \E i, j \in 1..Len(tasks) :
          /\ TwoUpdatesDone(i, j)
          /\ store[tasks[j].submission.ID] = <<tasks[j].submission>>
          /\ \E s \in SheetIds :
                /\ CountRows(sheetRows[s], tasks[i].submission.ID) = 1
                /\ FoundRow(sheetRows[s], tasks[i].submission.ID) \in RowsOf(tasks[i])
                /\ FoundRow(sheetRows[s], tasks[i].submission.ID) \notin RowsOf(tasks[j])

-----------------------------------------------------------------------------
(* Claims about partial failure of one engine call *)

\* the spreadsheets on which a call of the invocation failed: when
\* fetchSheets failed the invocation made no call on any spreadsheet
SheetFailures(o) == IF o.listed THEN o.failed ELSE {}

\* the invocation recorded in o has written its row to a spreadsheet once:
\* AppendSubmission has added one last row; UpdateSubmission has changed the
\* one line its scan finds, or added one last row when there was none
RowWritten(o, before, after) ==
    IF o.op = "AppendSubmission"
    THEN /\ Len(after) = Len(before) + 1
         /\ SubSeq(after, 1, Len(before)) = before
         /\ after[Len(after)] \in CreatedRows[o.id]
    ELSE /\ CountRows(after, o.id) >= 1
         /\ FoundRow(after, o.id) \in UpdatedRows[o.id]
         /\ Len(after) = Len(before) + (IF CountRows(before, o.id) = 0 THEN 1 ELSE 0)
         /\ \A n \in 1..Len(before) :
               n # FindRow(ColumnA(after), o.id) + 1 => after[n] = before[n]

\* the step is one invocation of AppendSubmission or UpdateSubmission
EngineCall ==
    /\ syncLog' # syncLog
    /\ out'.op \in {"AppendSubmission", "UpdateSubmission"}

\* C20 as stated: every invocation of AppendSubmission or UpdateSubmission
\* writes its row once to every spreadsheet but those on which a call of
\* the invocation failed, which are left as they were.
C20_EverySheetAttempted ==
    [][EngineCall =>
          \A s \in SheetIds :
             IF s \in SheetFailures(out')
             THEN sheetRows'[s] = sheetRows[s]
             ELSE RowWritten(out', sheetRows[s], sheetRows'[s])
      ]_vars

\* C20 amended: an invocation whose fetchSheets succeeds writes its row once
\* to every spreadsheet but those on which its read or its write failed,
\* which are left as they were, whichever the other spreadsheets are; an
\* invocation whose fetchSheets fails returns the error and leaves every
\* spreadsheet as it was.
C20_EverySheetAttemptedWhenListed ==
    [][EngineCall =>
          IF out'.listed
          THEN /\ ~out'.err
               /\ \A s \in SheetIds :
                     IF s \in out'.failed
                     THEN sheetRows'[s] = sheetRows[s]
                     ELSE RowWritten(out', sheetRows[s], sheetRows'[s])
          ELSE out'.err /\ sheetRows' = sheetRows
      ]_vars

\* C20 witness: an invocation has failed on the first spreadsheet of the
\* list, which has no row of the submission, and has written the second.
C20_Witness ==
    /\ out.op \in {"AppendSubmission", "UpdateSubmission"}
    /\ out.listed
    /\ out.failed = {SheetOrder[1]}
    /\ CountRows(sheetRows[SheetOrder[1]], out.id) = 0
    /\ CountRows(sheetRows[SheetOrder[2]], out.id) = 1

-----------------------------------------------------------------------------
(* Claims about the header pass at startup *)

\* what ensureHeaders looks at: cell A1 of the sheet holds a value
HasFirstCell(rows) == Len(rows) > 0 /\ Len(rows[1]) > 0 /\ rows[1][1] # ""

\* ensureHeaders has run on the sheet without an error: a sheet with a value
\* in A1 is as it was, any other sheet has got the header as its line 1
HeaderEnsured(before, after) ==
    IF HasFirstCell(before) THEN after = before
    ELSE after = ValuesUpdate(before, 1, Headers)

\* C21: in a start of the service that has listed the spreadsheets, a failed
\* read or write on one spreadsheet leaves that spreadsheet as it was, every
\* other spreadsheet has its header ensured, and ensureAllHeaders returns
\* nil, so that NewGoogleSheetsService returns the service.
C21_HeaderFailureIsolated ==
    [][(syncLog' # syncLog /\ out'.op = "ensureAllHeaders" /\ out'.listed) =>
          /\ ~out'.err
          /\ \A s \in SheetIds :
                IF s \in out'.failed
                THEN sheetRows'[s] = sheetRows[s]
                ELSE HeaderEnsured(sheetRows[s], sheetRows'[s])
      ]_vars

\* C21 witness: a start has returned the service after ensureHeaders failed
\* on the first spreadsheet of the list, which has no header, and wrote the
\* header of the second.
C21_Witness ==
    /\ out.op = "ensureAllHeaders"
    /\ out.listed /\ ~out.err
    /\ out.failed = {SheetOrder[1]}
    /\ ~HasFirstCell(sheetRows[SheetOrder[1]])
    /\ SheetOrder[2] \in out.wrote
    /\ sheetRows[SheetOrder[2]][1] = Headers

-----------------------------------------------------------------------------
(* Claims about the overwrite of UpdateSubmission *)

\* the lines of a sheet whose column A equals id
LinesOf(rows, id) == {n \in 1..Len(rows) : Len(rows[n]) > 0 /\ rows[n][1] = id}

\* the first of them
FirstLineOf(rows, id) ==
    CHOOSE n \in LinesOf(rows, id) : \A m \in LinesOf(rows, id) : n <= m

\* C22: an UpdateSubmission that has read and written a spreadsheet holding
\* the id in column A leaves the sheet with as many lines as before, the
\* first line of the id holding the newly encoded row, and every other line,
\* the header and the later lines of the id among them, as it was.
C22_OverwritesFirstRowOnly ==
    [][(syncLog' # syncLog /\ out'.op = "UpdateSubmission" /\ out'.listed) =>
          \A s \in SheetIds :
             (s \notin out'.failed /\ LinesOf(sheetRows[s], out'.id) # {}) =>
                /\ Len(sheetRows'[s]) = Len(sheetRows[s])
                /\ sheetRows'[s][FirstLineOf(sheetRows[s], out'.id)] \in UpdatedRows[out'.id]
                /\ \A n \in 1..Len(sheetRows[s]) :
                      n # FirstLineOf(sheetRows[s], out'.id)
                      => sheetRows'[s][n] = sheetRows[s][n]
      ]_vars

\* C22 witness: after an UpdateSubmission a spreadsheet has two lines of the
\* id: the first holds the updated row, the second still the created one.
C22_Witness ==
    /\ out.op = "UpdateSubmission"
    /\ out.listed
    /\ \E s \in SheetIds \ out.failed :
          /\ Cardinality(LinesOf(sheetRows[s], out.id)) = 2
          /\ sheetRows[s][FirstLineOf(sheetRows[s], out.id)] \in UpdatedRows[out.id]
          /\ \E n \in LinesOf(sheetRows[s], out.id) :
                /\ n > FirstLineOf(sheetRows[s], out.id)
                /\ sheetRows[s][n] \in CreatedRows[out.id]

-----------------------------------------------------------------------------
(* Requests one at a time: the goroutine of a request ends before the next *)
(* request starts, and no backend call fails                                *)

\* every goroutine started so far has ended
Quiescent == \A i \in 1..Len(tasks) : tasks[i].pc \in {"done", "failed"}

NextSeq ==
    \/ /\ Quiescent
       /\ \E user \in Users, req \in {FieldRequest, OthersRequest, GoneFieldRequest} :
             CreateSubmission(user, req, "none")
    \/ /\ Quiescent
       /\ \E user \in Users, id \in DocIds, req \in UpdateRequests :
             PutSubmission(user, id, req, "none")
    \/ \E i \in 1..Len(tasks) :
          \E it \in Iterations(tasks[i].submission) : TaskFetch(i, TRUE, it)
    \/ \E i \in 1..Len(tasks) : TaskRead(i, TRUE)
    \/ \E i \in 1..Len(tasks) :
          \E it \in Iterations(tasks[i].submission) : TaskWrite(i, TRUE, it)

SpecSeq == InitCrud /\ [][NextSeq]_vars

\* the rows the codec can return for a stored submission, with the field
\* name the handlers resolve for it
StoredRows(submission) ==
    {submissionToRow(submission, SheetFieldName(submission, TRUE), it) :
        it \in Iterations(submission)}

-----------------------------------------------------------------------------
(* Claims about the goroutines of one submission *)

\* C24: in every interleaving of the append goroutine of a Create with the
\* update goroutines of the Updates of the submission, every spreadsheet has
\* at most one row whose column A is the id of the submission.
C24_AtMostOneRow ==
    \A id \in DocIds, s \in SheetIds : Cardinality(LinesOf(sheetRows[s], id)) <= 1

-----------------------------------------------------------------------------
(* Media objects *)

\* the object names UploadMedia gives to the uploads of a submission
ObjectNamesOf(submissionID) ==
    {ObjectName(submissionID, GenerateID(n), t, ext) :
        n \in 1..MaxIds, t \in 1..MaxClock, ext \in {".jpg", ".ogg"}}

\* MediaHandler.DeleteMedia
DeleteMedia(user, filename, fail) ==
    /\ clock < MaxClock
    /\ clock' = clock + 1
    /\ IF user.Role # "admin"
       THEN /\ out' = Response("DeleteMedia", user, filename, None, fail, 403, None)
            /\ UNCHANGED objects
       ELSE IF fail = "delete" \/ filename \notin objects
       THEN \* obj.Delete returned an error
            /\ out' = Response("DeleteMedia", user, filename, None, fail, 500, None)
            /\ UNCHANGED objects
       ELSE /\ objects' = objects \ {filename}
            /\ out' = Response("DeleteMedia", user, filename, None, fail, 200, None)
    /\ UNCHANGED <<store, sheetRows, tasks, nextId, probe, client, auth, syncLog>>

NextMedia ==
    \/ \E user \in Users, req \in {FieldRequest, OthersRequest} :
          CreateSubmission(user, req, "none")
    \/ \E user \in Users, id \in DocIds :
          UploadMedia(user, id, "image", "leaf.jpg", "none")
    \/ \E user \in Users, fail \in {"none", "delete"} :
          \E filename \in objects \cup {"sub_0/none.jpg"} :
             DeleteMedia(user, filename, fail)

SpecMedia == InitCrud /\ [][NextMedia]_vars

\* the requester owns the submission the object was uploaded for
OwnsMedia(user, filename) ==
    \E id \in DocIds :
       /\ filename \in ObjectNamesOf(id)
       /\ Exists(id)
       /\ store[id][1].UserID = user.ID

\* C25: DeleteMedia by an administrator or by the owner of the submission
\* the object belongs to deletes the object and answers 200 when the
\* storage call succeeds; to every other requester it answers 403 and
\* deletes nothing.
C25_DeleteMediaByOwnerOrAdmin ==
    [][(out'.op = "DeleteMedia" /\ clock' # clock) =>
          IF out'.user.Role = "admin" \/ OwnsMedia(out'.user, out'.id)
          THEN (out'.fail = "none" /\ out'.id \in objects)
               => (out'.status = 200 /\ objects' = objects \ {out'.id})
          ELSE out'.status = 403 /\ objects' = objects
      ]_vars

-----------------------------------------------------------------------------
(* The client form: MonitoringForm.js *)

\* the user signed in to the client
CurrentUser == CHOOSE u \in Users : u.ID = "user_1"

\* the clearing of the details of a condition that has been unchecked
ClearedIfUnchecked(conditions, condition, name, reset) ==
    IF condition = name /\ ~conditions[name] THEN reset @@ conditions ELSE conditions

\* handleConditionChange without the mutual exclusion
handleConditionChangeToggleOnly(prev, condition) ==
    [prev EXCEPT !.plantConditions = [@ EXCEPT ![condition] = ~@]]

\* handleConditionChange: the updater it passes to setFormData
handleConditionChange(prev, condition) ==
    LET toggled == [prev.plantConditions EXCEPT ![condition] = ~@]
        exclusive ==
            IF condition = "Healthy" /\ toggled["Healthy"]
            THEN [toggled EXCEPT !["Unhealthy"] = FALSE]
            ELSE IF condition = "Unhealthy" /\ toggled["Unhealthy"]
            THEN [toggled EXCEPT !["Healthy"] = FALSE]
            ELSE toggled
        c1 == ClearedIfUnchecked(exclusive, condition, "Signs of pest infestation",
                 [pestDetails |-> EmptyObject, otherPest |-> ""])
        c2 == ClearedIfUnchecked(c1, condition, "Signs of nutrient deficiency",
                 [nutrientDeficiencyDetails |-> EmptyObject, otherNutrient |-> ""])
        c3 == ClearedIfUnchecked(c2, condition, "Water stress (drought or flood)",
                 [waterStressLevel |-> ""])
        c4 == ClearedIfUnchecked(c3, condition, "Lodging (bent/broken stems)",
                 [lodgingLevel |-> ""])
        c5 == ClearedIfUnchecked(c4, condition, "Weed infestation",
                 [weedInfestationLevel |-> ""])
        c6 == ClearedIfUnchecked(c5, condition, "Disease symptoms",
                 [diseaseDetails |-> EmptyObject, otherDisease |-> ""])
        c7 == ClearedIfUnchecked(c6, condition, "Other", [otherConditionText |-> ""])
    IN  [prev EXCEPT !.plantConditions = c7]

\* handlePestDetailChange: details[pest] = !details?.[pest]
handlePestDetailChange(prev, pest) ==
    LET details == prev.plantConditions["pestDetails"]
        checked == pest \in DOMAIN details /\ details[pest]
    IN  [prev EXCEPT !.plantConditions =
            [@ EXCEPT !["pestDetails"] = (pest :> ~checked) @@ details]]

\* handleOtherConditionChange
handleOtherConditionChange(prev, value) ==
    [prev EXCEPT !.plantConditions = [@ EXCEPT !["otherConditionText"] = value]]

\* handleInputChange for the location and the growth stage
handleInputChange(prev, field, value) == [prev EXCEPT ![field] = value]

\* handleMediaUpload of an image file
handleMediaUpload(prev, file) == [prev EXCEPT !.images = Append(@, file)]

\* validateForm: the date is set and the user has a name
validateForm(fd) == fd.location # "" /\ fd.growthStage # ""

\* plant_conditions of submissionData, as the JSON tags of
\* models.PlantConditions decode it
PlantConditionsOf(c) ==
    [Healthy |-> c["Healthy"], Unhealthy |-> c["Unhealthy"],
     SignsOfPestInfestation |-> c["Signs of pest infestation"],
     PestDetails |-> c["pestDetails"], OtherPest |-> c["otherPest"],
     SignsOfNutrientDeficiency |-> c["Signs of nutrient deficiency"],
     NutrientDeficiencyDetails |-> c["nutrientDeficiencyDetails"],
     OtherNutrient |-> c["otherNutrient"],
     WaterStress |-> c["Water stress (drought or flood)"],
     WaterStressLevel |-> c["waterStressLevel"],
     Lodging |-> c["Lodging (bent/broken stems)"], LodgingLevel |-> c["lodgingLevel"],
     WeedInfestation |-> c["Weed infestation"],
     WeedInfestationLevel |-> c["weedInfestationLevel"],
     DiseaseSymptoms |-> c["Disease symptoms"], DiseaseDetails |-> c["diseaseDetails"],
     OtherDisease |-> c["otherDisease"],
     Other |-> c["Other"], OtherConditionText |-> c["otherConditionText"]]

\* submissionData of handleSubmit: no media, no other_field_name
SubmissionData(fd) ==
    [FieldID |-> fd.location, OtherFieldName |-> "", Date |-> 1,
     GrowthStage |-> fd.growthStage,
     PlantConditions |-> PlantConditionsOf(fd.plantConditions),
     TraitMeasurements |-> ZeroTraitMeasurements,
     Coordinates |-> ZeroLocation, Notes |-> "", ObserverName |-> "Alice",
     Images |-> << >>, Videos |-> << >>, Audio |-> << >>]

\* the checkboxes, the pests, the fields and the files of the runs
CheckedConditions == {"Healthy", "Unhealthy", "Signs of pest infestation", "Other"}

\* a change of the form by the user
FormChange ==
    /\ \/ \E condition \in CheckedConditions :
             formData' = handleConditionChange(formData, condition)
       \/ /\ formData.plantConditions["Signs of pest infestation"]
          /\ formData' = handlePestDetailChange(formData, "Rice mealybug")
       \/ /\ formData.plantConditions["Other"]
          /\ formData' = handleOtherConditionChange(formData, "hail damage")
       \/ \E value \in {"", "field_1"} :
             formData' = handleInputChange(formData, "location", value)
       \/ \E value \in {"", "Tillering"} :
             formData' = handleInputChange(formData, "growthStage", value)
       \/ /\ formData.images = << >>
          /\ formData' = handleMediaUpload(formData, "leaf.jpg")
    /\ submit.pc = "idle"
    /\ UNCHANGED <<store, sheetRows, tasks, objects, clock, nextId, out, probe, syncLog,
                   submit, auth>>

\* handleSubmit up to its first await: validateForm, then submissionData is
\* built from the form as it is
SubmitStart ==
    /\ submit.pc = "idle"
    /\ submit' =
          IF ~validateForm(formData)
          THEN [NoSubmit EXCEPT !.toast = "Please fill in all required fields"]
          ELSE [NoSubmit EXCEPT !.pc = "create", !.data = SubmissionData(formData),
                                !.files = formData.images]
    /\ UNCHANGED <<store, sheetRows, tasks, objects, clock, nextId, out, probe, syncLog,
                   formData, auth>>

\* step 2 of handleSubmit: apiService.createSubmission and its response
SubmitCreate ==
    /\ submit.pc = "create"
    /\ \E fail \in {"none", "set"} : ServeCreateSubmission(CurrentUser, submit.data, fail)
    /\ submit' =
          IF out'.status = 201
          THEN [submit EXCEPT !.requests = Append(@, "createSubmission"),
                              !.created = @ \cup {out'.id},
                              !.submissionId = out'.id,
                              !.pc = IF submit.files # << >> THEN "upload" ELSE "recreate"]
          ELSE [submit EXCEPT !.requests = Append(@, "createSubmission"),
                              !.pc = "idle",
                              !.toast = "Failed to create submission"]
    /\ UNCHANGED formData

\* step 3 of handleSubmit: apiService.uploadMedia of the one file
SubmitUpload ==
    /\ submit.pc = "upload"
    /\ \E fail \in {"none", "tx"} :
          ServeUploadMedia(CurrentUser, submit.submissionId, "image", submit.files[1], fail)
    /\ submit' =
          [submit EXCEPT !.requests = Append(@, "uploadMedia"),
                         !.imageUrls = IF out'.status = 200 THEN <<out'.body[1].url>>
                                       ELSE << >>,
                         !.pc = IF out'.status = 200 THEN "update" ELSE "recreate"]
    /\ UNCHANGED formData

\* step 4 of handleSubmit: apiService.updateSubmission with the media URLs;
\* a failure is only logged
SubmitUpdate ==
    /\ submit.pc = "update"
    /\ \E fail \in {"none", "update"} :
          ServeUpdateSubmission(CurrentUser, submit.submissionId,
                                [Images |-> submit.imageUrls, Videos |-> << >>,
                                 Audio |-> << >>], fail)
    /\ submit' = [submit EXCEPT !.requests = Append(@, "updateSubmission"),
                                !.pc = "recreate"]
    /\ UNCHANGED formData

\* the end of handleSubmit: apiService.createSubmission(submissionData) again,
\* then the reset of the form and the toast
SubmitCreateAgain ==
    /\ submit.pc = "recreate"
    /\ \E fail \in {"none", "set"} : ServeCreateSubmission(CurrentUser, submit.data, fail)
    /\ submit' =
          [submit EXCEPT !.requests = Append(@, "createSubmission"),
                         !.created = IF out'.status = 201 THEN @ \cup {out'.id} ELSE @,
                         !.pc = "idle",
                         !.toast = IF out'.status = 201
                                   THEN "Submission created successfully!"
                                   ELSE "Failed to create submission"]
    /\ formData' = IF out'.status = 201 THEN InitialFormData ELSE formData

NextForm ==
    \/ FormChange
    \/ SubmitStart
    \/ SubmitCreate
    \/ SubmitUpload
    \/ SubmitUpdate
    \/ SubmitCreateAgain

SpecForm == InitCrud /\ [][NextForm]_vars

\* C26: in the client form plantConditions.Healthy and
\* plantConditions.Unhealthy are never both true.
C26_HealthyExcludesUnhealthy ==
    ~(formData.plantConditions["Healthy"] /\ formData.plantConditions["Unhealthy"])

\* C26 witness: handleConditionChange has checked Unhealthy and the pest
\* condition, a pest is ticked, and Healthy is not checked.
C26_Witness ==
    /\ formData.plantConditions["Unhealthy"]
    /\ ~formData.plantConditions["Healthy"]
    /\ formData.plantConditions["Signs of pest infestation"]
    /\ formData.plantConditions["pestDetails"] # EmptyObject

\* C27: a run of handleSubmit that has ended with the success toast has
\* issued one create-submission request and has one stored submission.
C27_OneCreatePerSubmit ==
    (submit.pc = "idle" /\ submit.toast = "Submission created successfully!") =>
       /\ Len(SelectSeq(submit.requests, LAMBDA r : r = "createSubmission")) = 1
       /\ Cardinality({id \in submit.created : Exists(id)}) = 1

-----------------------------------------------------------------------------
(* Claims about a failed upload *)

\* C28: an UploadMedia for a non-empty submission_id that does not answer
\* 200 has stored no object in the bucket and has changed no submission.
C28_FailedUploadLeavesNothing ==
    [][(out'.op = "UploadMedia" /\ clock' # clock
          /\ out'.id # "" /\ out'.status # 200) =>
          (objects' = objects /\ store' = store)
      ]_vars

-----------------------------------------------------------------------------
(* Auth handlers *)

\* time.Hour in seconds
Hour == 3600

\* the key the tokens are signed with, and another key
JwtSecret == "JWT_SECRET"

\* utils.GenerateTokens: the two signed claim sets.  They carry the same
\* user id, email and role and differ in ExpiresAt.
GenerateTokens(user, now) ==
    [access |-> [UserID |-> user.ID, Email |-> user.Email, Role |-> user.Role,
                 ExpiresAt |-> now + Hour, IssuedAt |-> now, key |-> JwtSecret],
     refresh |-> [UserID |-> user.ID, Email |-> user.Email, Role |-> user.Role,
                  ExpiresAt |-> now + Hour * 24 * 7, IssuedAt |-> now, key |-> JwtSecret]]

\* utils.ValidateToken: the signature is made with the key and the token
\* has not expired
ValidateToken(token, now) == token.key = JwtSecret /\ now < token.ExpiresAt

\* a token signed with another key
ForgedToken ==
    [UserID |-> "admin_1", Email |-> "admin@rice.org", Role |-> "admin",
     ExpiresAt |-> Hour, IssuedAt |-> 0, key |-> "guess"]

\* the addresses Google answers for
Emails == {"admin@rice.org", "new@rice.org"}

\* Users().Where("email", "==", email).Documents(ctx).GetAll()
UsersByEmail(email) == {u \in users : u.Email = email}

\* the tokens handed out, with a new pair
Issue(tokens) ==
    [access |-> issued.access \cup {tokens.access},
     refresh |-> issued.refresh \cup {tokens.refresh}]

\* GoogleLogin up to the query of getOrCreateUser; tokenOk says whether
\* Google accepts the token.  docs[0] is any of the documents found.
GoogleLoginQuery(email, tokenOk, fail) ==
    /\ clock < MaxClock
    /\ clock' = clock + 1
    /\ IF ~tokenOk
       THEN /\ out' = Response("GoogleLogin", None, "", email, fail, 401, None)
            /\ UNCHANGED logins
       ELSE IF fail = "query"
       THEN /\ out' = Response("GoogleLogin", None, "", email, fail, 500, None)
            /\ UNCHANGED logins
       ELSE /\ \E docs \in {<<u>> : u \in UsersByEmail(email)}
                           \cup (IF UsersByEmail(email) = {} THEN {None} ELSE {}) :
                  logins' = Append(logins, [email |-> email, docs |-> docs, pc |-> "queried"])
            /\ UNCHANGED out
    /\ UNCHANGED <<store, sheetRows, tasks, objects, nextId, probe, syncLog, client,
                   users, issued>>

\* the rest of GoogleLogin: the user found or a new user document, the
\* tokens, updateUserLastLogin and the response
GoogleLoginFinish(i, fail) ==
    LET l == logins[i]
        user == IF l.docs # None THEN l.docs[1]
                ELSE [ID |-> GenerateID(nextId + 1), Email |-> l.email,
                      Role |-> "observer", LastLoginAt |-> clock]
        tokens == GenerateTokens(user, clock)
        set == IF l.docs = None THEN users \cup {user} ELSE users
    IN  /\ l.pc = "queried"
        /\ logins' = [logins EXCEPT ![i].pc = "done"]
        /\ IF l.docs = None
           THEN nextId < MaxIds /\ nextId' = nextId + 1
           ELSE UNCHANGED nextId
        /\ IF l.docs = None /\ fail = "set"
           THEN /\ out' = Response("GoogleLogin", None, "", l.email, fail, 500, None)
                /\ UNCHANGED <<users, issued>>
           ELSE /\ users' = {IF u.ID = user.ID THEN [u EXCEPT !.LastLoginAt = clock] ELSE u :
                                u \in set}
                /\ issued' = Issue(tokens)
                /\ out' = Response("GoogleLogin", <<user>>, user.ID, l.email, fail, 200,
                                   <<tokens>>)
        /\ UNCHANGED <<store, sheetRows, tasks, objects, clock, probe, syncLog, client>>

\* AuthHandler.RefreshToken
RefreshToken(token, fail) ==
    /\ clock < MaxClock
    /\ clock' = clock + 1
    /\ IF ~ValidateToken(token, clock + 1)
       THEN /\ out' = Response("RefreshToken", None, "", token, fail, 401, None)
            /\ UNCHANGED issued
       ELSE IF fail = "get" \/ \A u \in users : u.ID # token.UserID
       THEN /\ out' = Response("RefreshToken", None, "", token, fail, 404, None)
            /\ UNCHANGED issued
       ELSE LET user == CHOOSE u \in users : u.ID = token.UserID
                tokens == GenerateTokens(user, clock + 1)
            IN  /\ issued' = Issue(tokens)
                /\ out' = Response("RefreshToken", <<user>>, user.ID, token, fail, 200,
                                   <<tokens>>)
    /\ UNCHANGED <<store, sheetRows, tasks, objects, nextId, probe, syncLog, client,
                   users, logins>>

NextAuth ==
    \/ \E email \in Emails, tokenOk \in BOOLEAN, fail \in {"none", "query"} :
          GoogleLoginQuery(email, tokenOk, fail)
    \/ \E i \in 1..Len(logins), fail \in {"none", "set"} : GoogleLoginFinish(i, fail)
    \/ \E token \in issued.access \cup issued.refresh \cup {ForgedToken},
          fail \in {"none", "get"} :
          RefreshToken(token, fail)

SpecAuth == InitCrud /\ [][NextAuth]_vars

\* C29: the users collection never holds two documents with one email
\* address, and no step changes the id or the role of a user.
C29_OneUserPerEmail ==
    [][/\ \A u, v \in users' : u.Email = v.Email => u.ID = v.ID
       /\ \A u \in users :
             \E v \in users' : v.ID = u.ID /\ v.Email = u.Email /\ v.Role = u.Role
      ]_vars

\* C30: RefreshToken answers 200 with a new token pair only to a token that
\* was handed out as a refresh token; to every other token, an access token
\* among them, it answers 401 and hands out nothing.
C30_RefreshNeedsRefreshToken ==
    [][(out'.op = "RefreshToken" /\ clock' # clock /\ out'.req \notin issued.refresh) =>
          (out'.status = 401 /\ issued' = issued)
      ]_vars

====
